---- MODULE Spec2Model ----
(***************************************************************************)
(* A model of the Ankibot ingestion pipeline: the Model Gateway            *)
(* (FlashcardBackend._gen), the tokenized chunker (chunk_text), the        *)
(* verifier and its reconciliation audit (FlashcardBackend.verify_csv) and *)
(* the pipeline orchestrator (_start_pipeline / _pipeline).                *)
(*                                                                         *)
(* Each component has its own specification (SpecGen, SpecChunk,           *)
(* SpecVerify, SpecPipe, and SpecExtract, SpecFacts, SpecDedupe,           *)
(* SpecAudit, SpecCards, SpecRound, SpecSplit for the parts they are named *)
(* after); the variables of the other components stay at their idle        *)
(* values.  SpecWindows follows split_long_tokens step by step,            *)
(* SpecCollect the fan-out results in every completion order, and          *)
(* SpecRuns several runs started on one app object (SpecOneRun: one run);  *)
(* SpecWindowsLive and SpecOneRunLive add the fairness of their steps.     *)
(***************************************************************************)
EXTENDS Integers, Sequences, FiniteSets, TLC

VARIABLES
    \* ---- Model Gateway: one _gen call
    gpc,          \* "idle" | "loop" | "returned" | "raised"
    client,       \* self.client is present
    type,         \* the response kind argument of _gen
    prompt,       \* the prompt argument of _gen
    attempt,      \* the loop variable of `for attempt in range(max_retries + 1)`
    delay,        \* the current backoff delay, in seconds
    last_err,     \* the error of the last failed attempt
    calls,        \* number of generate_content calls made so far
    nfail,        \* number of failed attempts so far
    kinds,        \* the kinds of error the failed attempts raised
    sleeps,       \* the backoff sleeps performed, in order
    gen_out,      \* what _gen returned or raised
    \* ---- Tokenized Chunker: one chunk_text call
    cpc,          \* "idle" | "loop" | "done"
    text,         \* the text: its "\n\n"-separated pieces, each the kinds
                  \* of its tokens
    max_tokens,   \* the max_tokens argument
    overlap_arg,  \* the overlap argument, as passed
    pidx,         \* index of the next paragraph of the loop
    buf,          \* buf, a token list
    chunks,       \* chunks, each as the tokens of the stripped chunk string
    \* ---- Verifier / Reconciler: one verify_csv call
    vpc,          \* "idle" | "gen" | "parse" | "audit" | "returned" | "raised"
    csv_text,     \* the csv_text argument
    verified_csv, \* the text the Gateway returned
    original_cards,  \* the parsed rows of csv_text, header skipped
    verified_cards,  \* the parsed rows of verified_csv, header skipped
    audit,        \* what the reconciliation audit logged
    v_out,        \* what verify_csv returned or raised
    \* ---- Orchestrator: one run of _start_pipeline / _pipeline
    app,          \* the fields of the app object the run reads and writes
    loc,          \* the locals of the _pipeline coroutine and its position
    tasks,        \* the fan-out tasks of the current stage and their results
    hist,         \* the outcome of the run and what the run has done so far
    \* ---- Fact extraction: one extract_facts call (it calls _gen)
    xpc,          \* "idle" | "gen" | "parsed" | "returned" | "raised"
    parsed,       \* data, once it is a parsed array: its elements
    x_out,        \* what extract_facts returned or raised
    \* ---- Deduplication: one deduplicate_facts call
    dpc,          \* "idle" | "done"
    facts,        \* the facts argument
    uniq,         \* the list returned
    \* ---- Deck preview and export (ui/preview.py, ui/export.py)
    upc,          \* "idle" | "cards" | "rows" | "text" | "split" | "done"
    card_rows,    \* app.card_rows
    dialog,       \* the row index an open edit dialog was opened with, or 0
    last_op,      \* the last operation on card_rows and the index it used
    exported,     \* the CSV text built for the export
    files,        \* the per-topic files written: name and rows written
    \* ---- split_long_tokens: one call (utils.py, inside chunk_text)
    slt,          \* the arguments, the locals and the position of the call
    \* ---- The extraction fan-in: the loop over as_completed and the dedupe
    collect,      \* the units' results, their completion order, facts_all
    \* ---- Several runs of _start_pipeline on one app object
    shared,       \* the fields of the app object the runs share
    runs          \* for each run: its position, its locals and its units

gvars == <<gpc, client, type, prompt, attempt, delay, last_err, calls,
           nfail, kinds, sleeps, gen_out>>

cvars == <<cpc, text, max_tokens, overlap_arg, pidx, buf, chunks>>

vvars == <<vpc, csv_text, verified_csv, original_cards, verified_cards,
           audit, v_out>>

pvars == <<app, loc, tasks, hist>>

xvars == <<xpc, parsed, x_out>>

dvars == <<dpc, facts, uniq>>

uvars == <<upc, card_rows, dialog, last_op, exported, files>>

wvars == <<slt>>

ovars == <<collect>>

rvars == <<shared, runs>>

yvars == <<wvars, ovars, rvars>>

vars == <<gvars, cvars, vvars, pvars, xvars, dvars, uvars, yvars>>

(***************************************************************************)
(* Texts.  A text is a sequence of symbols; each symbol stands for a       *)
(* fragment of a real string:                                              *)
(*   "n"  a newline (whitespace)        "F"  a code fence ```              *)
(*   "j"  a letter                      "S"  the phrase Sorry,             *)
(*   "I"  the phrase I'm sorry          "O"  an empty object {}            *)
(*   "[" "]"  themselves                                                   *)
(* lower() maps "S" to "s" (sorry,) and "I" to "i" (i'm sorry).            *)
(* "_" is a space; no response holds it, extract_facts writes it.          *)
(***************************************************************************)
MaxLen == 4

Sigma == {"n", "F", "j", "[", "]", "O", "S", "I"}

Texts == UNION {[1..k -> Sigma] : k \in 0..MaxLen}

IsWs(c) == c \in {"n", "_"}

RECURSIVE lstrip(_)
lstrip(s) == IF s # <<>> /\ IsWs(Head(s)) THEN lstrip(Tail(s)) ELSE s

RECURSIVE rstrip(_)
rstrip(s) ==
    IF s # <<>> /\ IsWs(s[Len(s)]) THEN rstrip(SubSeq(s, 1, Len(s) - 1)) ELSE s

\* str.strip()
strip(s) == rstrip(lstrip(s))

\* str.lower()
lower(s) ==
    [i \in 1..Len(s) |-> CASE s[i] = "S" -> "s" [] s[i] = "I" -> "i" [] OTHER -> s[i]]

\* str.startswith(p)
startswith(s, p) == Len(s) >= Len(p) /\ SubSeq(s, 1, Len(p)) = p

(***************************************************************************)
(* json.loads accepts, over these symbols, exactly the empty object and    *)
(* the arrays of no or one such value, with whitespace between tokens      *)
(* (members, strings, numbers and commas need symbols no text here has).   *)
(***************************************************************************)
RECURSIVE IsJsonValue(_)
IsJsonValue(s) ==
    \/ s = <<"O">>
    \/ /\ Len(s) >= 2
       /\ s[1] = "[" /\ s[Len(s)] = "]"
       /\ LET inner == strip(SubSeq(s, 2, Len(s) - 1))
          IN  inner = <<>> \/ IsJsonValue(inner)

is_valid_json(txt) == IsJsonValue(strip(txt))

\* re.sub(r"^```[a-zA-Z0-9]*\n?", "", cleaned) on a text that starts with a fence.
\* (The letters of a leading Sorry, / I'm sorry would be eaten too; what is then
\* left is no JSON value either way, and the array search below is unaffected.)
RECURSIVE DropAlnum(_)
DropAlnum(s) == IF s # <<>> /\ Head(s) = "j" THEN DropAlnum(Tail(s)) ELSE s

SubFenceOpen(s) ==
    IF s # <<>> /\ Head(s) = "F"
    THEN LET a == DropAlnum(Tail(s))
         IN  IF a # <<>> /\ Head(a) = "n" THEN Tail(a) ELSE a
    ELSE s

\* re.sub(r"```$", "", cleaned): $ matches at the end and before a final newline.
SubFenceClose(s) ==
    CASE s # <<>> /\ s[Len(s)] = "F" -> SubSeq(s, 1, Len(s) - 1)
      [] Len(s) >= 2 /\ s[Len(s)] = "n" /\ s[Len(s) - 1] = "F" ->
             SubSeq(s, 1, Len(s) - 2) \o <<"n">>
      [] OTHER -> s

\* backend.py:98-100
StripFences(cleaned) ==
    IF startswith(cleaned, <<"F">>)
    THEN strip(SubFenceClose(SubFenceOpen(cleaned)))
    ELSE cleaned

\* re.search(r"\[\s*{.*}\s*\]", cleaned, re.DOTALL): the leftmost start, the
\* longest end; <<>> when there is no match.  The { is that of the first "O"
\* after the bracket, the } that of the same or of a later "O".
AllWs(s, a, b) == \A x \in a..b : IsWs(s[x])

ArrayEnds(s, i) ==
    {l \in i + 1..Len(s) :
        /\ s[l] = "]"
        /\ \E j \in i + 1..l - 1 :
              /\ s[j] = "O" /\ AllWs(s, i + 1, j - 1)
              /\ \E k \in j..l - 1 : s[k] = "O" /\ AllWs(s, k + 1, l - 1)}

Max(S) == CHOOSE m \in S : \A x \in S : x <= m
Min(S) == CHOOSE m \in S : \A x \in S : m <= x

ArraySearch(s) ==
    LET starts == {i \in 1..Len(s) : s[i] = "[" /\ ArrayEnds(s, i) # {}}
    IN  IF starts = {} THEN <<>>
        ELSE SubSeq(s, Min(starts), Max(ArrayEnds(s, Min(starts))))

(***************************************************************************)
(* What self.client.models.generate_content can do: raise, return nothing, *)
(* return a response without text, or return a response with a text.       *)
(***************************************************************************)
ExcKinds == {"InternalServerError", "Exception"}

ModelReturns ==
    [k : {"exc"}, exc : ExcKinds, text : {<<>>}]
        \cup [k : {"none", "notext"}, exc : {"-"}, text : {<<>>}]
        \cup [k : {"text"}, exc : {"-"}, text : Texts]

ApologyPhrases == {<<"i">>, <<"s">>}

\* backend.py:88
IsInvalidResponse(r) ==
    \/ r.k = "none"
    \/ r.k = "notext"
    \/ strip(r.text) = <<>>
    \/ strip(r.text) = <<"[", "]">>
    \/ \E p \in ApologyPhrases : startswith(lower(strip(r.text)), p)

\* What one attempt does: raise exception class e for reason w, or return
\* text t, obtained at step v of the cleanup.
Raise(e, w) == [ok |-> FALSE, exc |-> e, why |-> w, text |-> <<>>, via |-> "-"]
Return(t, v) == [ok |-> TRUE, exc |-> "-", why |-> "-", text |-> t, via |-> v]

\* The cascade without its final validity check (backend.py:109-111 left out).
FactCleanup_unchecked(txt) ==
    IF IsJsonValue(strip(txt)) THEN Return(strip(txt), "as-is")
    ELSE LET fenced == StripFences(strip(txt))
             m == ArraySearch(fenced)
         IN  Return(IF ~IsJsonValue(fenced) /\ m # <<>> THEN m ELSE fenced, "as-is")

\* backend.py:91-113, the cleanup cascade of a fact_extraction response
FactCleanup(txt) ==
    IF is_valid_json(strip(txt)) THEN Return(strip(txt), "as-is")
    ELSE LET fenced == StripFences(strip(txt))
             m == ArraySearch(fenced)
             cleaned == IF ~is_valid_json(fenced) /\ m # <<>> THEN m ELSE fenced
             via == CASE cleaned # fenced -> "array"
                      [] fenced # strip(txt) -> "fences"
                      [] OTHER -> "as-is"
         IN  IF ~is_valid_json(cleaned)
             THEN Raise("InternalServerError", "Invalid JSON output for facts")
             ELSE Return(cleaned, via)

\* backend.py:84-117, _call: the outcome of one attempt
Call(ty, r) ==
    IF r.k = "exc" THEN Raise(r.exc, "raised by the client")
    ELSE IF IsInvalidResponse(r)
    THEN Raise("InternalServerError", "No response from model")
    ELSE IF ty = "fact_extraction" THEN FactCleanup(r.text)
    ELSE Return(strip(r.text), "as-is")

Types == {"default", "fact_extraction"}

\* The outcomes one attempt can have, per response kind.
CallOutcomes == [ty \in Types |-> {Call(ty, r) : r \in ModelReturns}]

Prompts == {"p1", "p2"}

max_retries_short == 6

\* backend.py:80
max_retries == 7

NoErr == [attempt |-> -1, exc |-> "-", why |-> "-"]

IdleChunk ==
    /\ cpc = "idle"
    /\ text = <<>>
    /\ max_tokens = 0
    /\ overlap_arg = 0
    /\ pidx = 0
    /\ buf = <<>>
    /\ chunks = <<>>

NoText == [bad |-> FALSE, lines |-> <<>>]

NoAudit == [k |-> "-"]

IdleVerify ==
    /\ vpc = "idle"
    /\ csv_text = NoText
    /\ verified_csv = NoText
    /\ original_cards = <<>>
    /\ verified_cards = <<>>
    /\ audit = NoAudit
    /\ v_out = [k |-> "-"]

MaxChunks == 2

MaxFiles == 1

\* progress.value = None; os.cpu_count() is None
None == 0 - 1

\* what os.cpu_count() returns: one CPU, sixteen CPUs
CpuCounts == {1, 16}

\* line 89: min(8, (os.cpu_count() or 4))
max_workers(cpu_count) ==
    LET n == IF cpu_count = None \/ cpu_count = 0 THEN 4 ELSE cpu_count
    IN  IF n < 8 THEN n ELSE 8

\* the empty string where a CSV text is expected
NoCsv == [chunk |-> 0, by |-> 0 - 1]

NoTask ==
    [st |-> "-", facts |-> <<>>, csv |-> NoCsv, ret |-> NoCsv,
     input |-> NoCsv, how |-> "-"]

NoTasks == [u |-> [c \in 1..MaxChunks |-> NoTask], q |-> <<>>]

NoPass == [run |-> 0 - 1, pre |-> <<>>, how |-> <<>>, ret |-> <<>>]

\* reported: the progress values the run has set, in order; raised: the
\* exception that left _pipeline; snacks: the notifications of the run, by
\* colour; warned: the passes of the legacy pipeline whose failure was
\* logged
NoHist ==
    [outcome |-> "-", cancel_stage |-> 0, last_pass |-> NoPass,
     reported |-> <<>>, raised |-> "-", snacks |-> <<>>, warned |-> <<>>]

IdleLoc ==
    [pc |-> "idle", pasted_text |-> FALSE, fidx |-> 0, has_text |-> FALSE,
     nchunks |-> 0, max_workers |-> 1, facts_all |-> <<>>,
     facts_unique |-> <<>>, active_chunks |-> <<>>, generated_dict |-> <<>>,
     current_csv_per_chunk |-> <<>>, verified_dict |-> <<>>, file2 |-> <<>>,
     done |-> 0, run |-> 0]

\* selected_files is the number of files selected
IdleApp ==
    [new_pipeline |-> TRUE, double_check |-> FALSE, selected_files |-> 0,
     cancel_event |-> FALSE, progress |-> None, progress_label |-> "",
     all_facts |-> <<>>, generated_csv |-> <<>>, verified_csv |-> <<>>,
     card_rows |-> <<>>,
     verification_runs |-> 1]

IdlePipe ==
    /\ app = IdleApp
    /\ loc = IdleLoc
    /\ tasks = NoTasks
    /\ hist = NoHist

IdleExtract ==
    /\ xpc = "idle"
    /\ parsed = <<>>
    /\ x_out = [k |-> "-"]

IdleDedupe ==
    /\ dpc = "idle"
    /\ facts = <<>>
    /\ uniq = <<>>

NoOp == [k |-> "-", idx |-> 0, arg |-> <<>>]

IdleCards ==
    /\ upc = "idle"
    /\ card_rows = <<>>
    /\ dialog = 0
    /\ last_op = NoOp
    /\ exported = <<>>
    /\ files = <<>>

\* no call of split_long_tokens
IdleWindows == slt = [pc |-> "idle"]

\* no extraction stage
IdleCollect == collect = [pc |-> "idle"]

\* no run started
IdleRuns ==
    /\ shared = [event |-> 0]
    /\ runs = <<>>

IdleLater == IdleWindows /\ IdleCollect /\ IdleRuns

InitGen ==
    /\ IdleLater
    /\ IdleCards
    /\ IdleChunk
    /\ IdleVerify
    /\ IdlePipe
    /\ IdleExtract
    /\ IdleDedupe
    /\ gpc = "idle"
    /\ client \in BOOLEAN
    /\ type \in Types
    /\ prompt \in Prompts
    /\ attempt = 0
    /\ delay = 1
    /\ last_err = NoErr
    /\ calls = 0
    /\ nfail = 0
    /\ kinds = {}
    /\ sleeps = <<>>
    /\ gen_out = [k |-> "-"]

\* backend.py:72-81
GenEnter ==
    /\ UNCHANGED <<cvars, vvars, pvars, xvars, dvars, uvars, yvars>>
    /\ gpc = "idle"
    /\ IF client
       THEN gpc' = "loop" /\ gen_out' = gen_out
       ELSE /\ gpc' = "raised"
            /\ gen_out' = [k |-> "raise", why |-> "API key is missing"]
    /\ UNCHANGED <<client, type, prompt, attempt, delay, last_err, calls,
                   nfail, kinds, sleeps>>

\* backend.py:82-119, an attempt whose _call returns
GenAttemptOk ==
    /\ UNCHANGED <<cvars, vvars, pvars, xvars, dvars, uvars, yvars>>
    /\ gpc = "loop"
    /\ attempt <= max_retries
    /\ \E o \in CallOutcomes[type] :
          /\ o.ok
          /\ gen_out' = [k |-> "return", text |-> o.text, via |-> o.via]
    /\ calls' = calls + 1
    /\ gpc' = "returned"
    /\ UNCHANGED <<client, type, prompt, attempt, delay, last_err, nfail,
                   kinds, sleeps>>

\* a variant of the handlers that keeps the first error caught
recorded_first(prev, e) == IF prev = NoErr THEN e ELSE prev

\* backend.py:121 and 126, last_err = e: the error caught replaces the one
\* held
recorded(prev, e) == e

\* backend.py:120-129, an attempt whose _call raises: log, sleep, double
GenAttemptFail ==
    /\ UNCHANGED <<cvars, vvars, pvars, xvars, dvars, uvars, yvars>>
    /\ gpc = "loop"
    /\ attempt <= max_retries
    /\ \E o \in CallOutcomes[type] :
          /\ ~o.ok
          /\ last_err' = recorded(last_err, [attempt |-> attempt,
                                              exc |-> o.exc, why |-> o.why])
          /\ kinds' = kinds \cup {o.exc}
    /\ nfail' = nfail + 1
    /\ calls' = calls + 1
    /\ sleeps' = Append(sleeps, delay)
    /\ delay' = delay * 2
    /\ attempt' = attempt + 1
    /\ UNCHANGED <<gpc, client, type, prompt, gen_out>>

\* backend.py:130
GenExhausted ==
    /\ UNCHANGED <<cvars, vvars, pvars, xvars, dvars, uvars, yvars>>
    /\ gpc = "loop"
    /\ attempt > max_retries
    /\ gpc' = "raised"
    /\ gen_out' = [k |-> "raise", why |-> "GenAI error", err |-> last_err,
                   prompt |-> prompt]
    /\ UNCHANGED <<client, type, prompt, attempt, delay, last_err, calls,
                   nfail, kinds, sleeps>>

NextGen == GenEnter \/ GenAttemptOk \/ GenAttemptFail \/ GenExhausted

SpecGen == InitGen /\ [][NextGen]_vars

IdleGen ==
    /\ gpc = "idle"
    /\ client = TRUE
    /\ type = "default"
    /\ prompt = "p1"
    /\ attempt = 0
    /\ delay = 1
    /\ last_err = NoErr
    /\ calls = 0
    /\ nfail = 0
    /\ kinds = {}
    /\ sleeps = <<>>
    /\ gen_out = [k |-> "-"]

(***************************************************************************)
(* Claims about the Model Gateway, checked under SpecGen.                  *)
(***************************************************************************)

\* C1: with a client, a _gen call that returns has made exactly (number of
\* failed attempts) + 1 model calls, after at most 7 failures, and returns the
\* text of the successful attempt; a _gen call that raises has made exactly 8
\* model calls, all failed; whatever the kinds of error of the failures.
C1_RetryCount ==
    /\ gpc = "returned" =>
          /\ calls = nfail + 1
          /\ nfail <= 7
          /\ gen_out.k = "return"
          /\ Return(gen_out.text, gen_out.via) \in CallOutcomes[type]
    /\ gpc = "raised" /\ client =>
          /\ calls = 8
          /\ nfail = 8
          /\ gen_out.k = "raise"

\* C1 witness: seven failures of both kinds, then a success on the eighth call.
C1_Witness ==
    gpc = "returned" /\ nfail = 7 /\ calls = 8 /\ kinds = ExcKinds

IsApology(t) == \E p \in {<<"i">>, <<"s">>} : startswith(lower(strip(t)), p)

\* C9: any text _gen returns is non-empty after trimming, is not "[]" and
\* does not begin with an apology phrase.
C9_NeverReturnsInvalid ==
    gpc = "returned" =>
        /\ strip(gen_out.text) # <<>>
        /\ strip(gen_out.text) # <<"[", "]">>
        /\ ~IsApology(gen_out.text)

\* C10: for response kind fact_extraction, a text _gen returns is valid JSON,
\* and an attempt whose response yields no valid JSON at any step of the
\* cascade is a failed attempt of the same retry loop (at most 8 calls).
C10_FactsAreJson ==
    /\ gpc = "returned" /\ type = "fact_extraction" =>
          IsJsonValue(strip(gen_out.text))
    /\ type = "fact_extraction" => calls <= max_retries + 1
    /\ last_err.why = "Invalid JSON output for facts" =>
          /\ type = "fact_extraction"
          /\ nfail = last_err.attempt + 1
          /\ calls = nfail + (IF gpc = "returned" THEN 1 ELSE 0)

\* C10 witness: an attempt failed for invalid JSON, and the retry returned an
\* array found by the array search.
C10_Witness ==
    /\ gpc = "returned" /\ type = "fact_extraction"
    /\ last_err.why = "Invalid JSON output for facts"
    /\ gen_out.via = "array"

\* C11: the backoff sleeps of one _gen call start at 1 second and double
\* after each failed attempt, and a call that exhausts its retries has slept
\* exactly 1, 2, 4, 8, 16, 32, 64 seconds.
C11_BackoffSleeps ==
    /\ \A i \in 1..Len(sleeps) : sleeps[i] = 2 ^ (i - 1)
    /\ (gpc = "raised" /\ client) => sleeps = <<1, 2, 4, 8, 16, 32, 64>>

\* C11 witness: the call exhausted its retries after an eighth sleep, of 128
\* seconds, that follows the last attempt.
C11_Witness ==
    /\ gpc = "raised" /\ client /\ calls = 8
    /\ sleeps = <<1, 2, 4, 8, 16, 32, 64, 128>>

(***************************************************************************)
(* Fact extraction, backend.py extract_facts.  A parsed JSON value is      *)
(* written as its text without the surrounding white space; None is the    *)
(* empty text, which is the text of no value.  A Fact is given by its      *)
(* topic and its fact text (subtopic and source go with the topic).        *)
(***************************************************************************)
Fact(t, x) == [topic |-> t, fact |-> x]

NoData == <<>>

\* lines 136-140
try_parse_json(txt) == IF is_valid_json(txt) THEN strip(txt) ELSE NoData

\* the elements of a parsed array (the arrays here have at most one)
Elements(v) ==
    IF Len(v) >= 2 /\ v[1] = "["
    THEN LET inner == strip(SubSeq(v, 2, Len(v) - 1))
         IN  IF inner = <<>> THEN <<>> ELSE <<inner>>
    ELSE <<>>

\* `if data`: None, {} and [] are false
Truthy(v) == v # NoData /\ v # <<"O">> /\ Elements(v) # <<>>

\* lines 153-158: the replacements apply to quotes, commas and newlines; of
\* these the texts here hold the newline, which becomes a space
fixed(txt) == [i \in 1..Len(txt) |-> IF txt[i] = "n" THEN "_" ELSE txt[i]]

\* lines 146-149 and 159-161: the array search, when data is still false
Retry(data, txt) ==
    IF ~Truthy(data) /\ ArraySearch(txt) # <<>>
    THEN try_parse_json(ArraySearch(txt))
    ELSE data

\* lines 168-183: an element that is an object gives a Fact (here the
\* object is empty and every field takes its default); an element that is
\* an array has no get(), which is caught, and is skipped
BuildFacts(data) ==
    LET es == Elements(data)
    IN  IF es # <<>> /\ es[1] = <<"O">> THEN <<Fact("", "")>> ELSE <<>>

\* lines 142-183: what extract_facts returns for the text _gen returned
ParseFacts(txt) ==
    LET data == Retry(Retry(try_parse_json(txt), txt), fixed(txt))
    IN  IF ~Truthy(data) THEN <<>> ELSE BuildFacts(data)

\* line 134: what _gen raises leaves extract_facts
GenRaised == [k |-> "raise", exc |-> "RuntimeError"]

InitExtract ==
    /\ IdleLater
    /\ IdleChunk
    /\ IdleVerify
    /\ IdlePipe
    /\ IdleDedupe
    /\ gpc = "idle"
    /\ client \in BOOLEAN
    /\ type = "fact_extraction"
    /\ prompt \in Prompts
    /\ attempt = 0
    /\ delay = 1
    /\ last_err = NoErr
    /\ calls = 0
    /\ nfail = 0
    /\ kinds = {}
    /\ sleeps = <<>>
    /\ gen_out = [k |-> "-"]
    /\ xpc = "gen"
    /\ parsed = <<>>
    /\ x_out = [k |-> "-"]
    /\ IdleCards

\* lines 134-183, _gen has returned
ExtractReturns ==
    /\ UNCHANGED <<gvars, cvars, vvars, pvars, dvars, uvars, yvars>>
    /\ UNCHANGED parsed
    /\ xpc = "gen"
    /\ gpc = "returned"
    /\ xpc' = "returned"
    /\ x_out' = [k |-> "return", facts |-> ParseFacts(gen_out.text)]

\* line 134, _gen has raised
ExtractRaises ==
    /\ UNCHANGED <<gvars, cvars, vvars, pvars, dvars, uvars, yvars>>
    /\ UNCHANGED parsed
    /\ xpc = "gen"
    /\ gpc = "raised"
    /\ xpc' = "raised"
    /\ x_out' = GenRaised

NextExtract == NextGen \/ ExtractReturns \/ ExtractRaises

SpecExtract == InitExtract /\ [][NextExtract]_vars

\* C12: extract_facts never raises: whatever the Gateway does, the call
\* ends by returning a list of Facts.
C12_ExtractNeverRaises ==
    /\ xpc # "raised"
    /\ xpc = "returned" => x_out.k = "return"

\* C12 witness: the Gateway exhausted its retries and extract_facts raised
C12_Witness ==
    /\ xpc = "raised" /\ client /\ calls = max_retries + 1
    /\ x_out.exc = "RuntimeError"

(***************************************************************************)
(* Deduplication, utils.py deduplicate_facts.                              *)
(***************************************************************************)
MaxFacts == 3

\* a dict that has no "fact" key
NoFactKey == "<no key>"

\* fact texts: "f1", the same in capitals between spaces, another text, the
\* empty text, a text of white space, and no text at all
FactTexts == {"f1", " F1 ", "f2", "", " ", NoFactKey}

Topics == {"A", "B"}

\* a variant of the key without get's default, strip() and lower()
fact_key_as_is(f) == f.fact

\* f.get("fact", "").strip().lower()
fact_key(f) ==
    CASE f.fact = NoFactKey -> ""
      [] f.fact = " "       -> ""
      [] f.fact = " F1 "    -> "f1"
      [] OTHER              -> f.fact

\* a variant of the loop whose key is the text without strip() and lower()
RECURSIVE deduplicate_facts_exact(_, _)
deduplicate_facts_exact(fs, i) ==
    IF i = 0 THEN <<>>
    ELSE IF \/ fs[i].fact = ""
            \/ \E j \in 1..(i - 1) : fs[j].fact = fs[i].fact
         THEN deduplicate_facts_exact(fs, i - 1)
         ELSE Append(deduplicate_facts_exact(fs, i - 1), fs[i])

\* utils.py lines 84-90: the loop, over the first i facts
RECURSIVE deduplicate_facts(_, _)
deduplicate_facts(fs, i) ==
    IF i = 0 THEN <<>>
    ELSE IF \/ fact_key(fs[i]) = ""
            \/ \E j \in 1..(i - 1) : fact_key(fs[j]) = fact_key(fs[i])
         THEN deduplicate_facts(fs, i - 1)
         ELSE Append(deduplicate_facts(fs, i - 1), fs[i])

FactLists ==
    UNION {[1..n -> {Fact(t, x) : t \in Topics, x \in FactTexts}] :
              n \in 0..MaxFacts}

InitDedupe ==
    /\ IdleLater
    /\ IdleCards
    /\ IdleGen
    /\ IdleChunk
    /\ IdleVerify
    /\ IdlePipe
    /\ IdleExtract
    /\ dpc = "idle"
    /\ facts \in FactLists
    /\ uniq = <<>>

\* uniq = deduplicate_facts(facts)
Dedupe ==
    /\ UNCHANGED <<gvars, cvars, vvars, pvars, xvars, uvars, yvars>>
    /\ dpc = "idle"
    /\ dpc' = "done"
    /\ uniq' = deduplicate_facts(facts, Len(facts))
    /\ UNCHANGED facts

NextDedupe == Dedupe

SpecDedupe == InitDedupe /\ [][NextDedupe]_vars

\* C13: the list deduplicate_facts returns is no longer than its input, has
\* no two facts with the same key, and is a subsequence of the input in
\* which every kept fact is the first input fact with its key.
C13_DedupeFirstSeen ==
    dpc = "done" =>
        /\ Len(uniq) <= Len(facts)
        /\ \A a, b \in 1..Len(uniq) :
              a # b => fact_key(uniq[a]) # fact_key(uniq[b])
        /\ \E pos \in [1..Len(uniq) -> 1..Len(facts)] :
              /\ \A a, b \in 1..Len(uniq) : a < b => pos[a] < pos[b]
              /\ \A a \in 1..Len(uniq) :
                    /\ facts[pos[a]] = uniq[a]
                    /\ \A j \in 1..(pos[a] - 1) :
                          fact_key(facts[j]) # fact_key(uniq[a])

\* C13 witness: of three facts with one key the first is kept, though they
\* differ in topic and in spelling
C13_Witness ==
    /\ dpc = "done" /\ Len(facts) = 3 /\ uniq = <<facts[1]>>
    /\ facts[1].fact = " F1 " /\ facts[2].fact = "f1"
    /\ facts[2].topic # facts[1].topic /\ facts[3] = facts[1]

(***************************************************************************)
(* The Tokenized Chunker, utils.py chunk_text.  A token is a pair          *)
(* <<paragraph, position>>; the separator "\n\n" is the one token SEP (as  *)
(* in cl100k_base).  A paragraph is given by the kinds of its tokens: "w"  *)
(* a token with visible text, "s" a token of white space only (a single    *)
(* newline, a tab, a run of spaces).  A piece of the text is stripped by   *)
(* line 57, so it neither starts nor ends with white space; a piece with   *)
(* no token is blank and is dropped by the split.  The tokens of a chunk   *)
(* are those of the decoded buffer after strip(), which removes the        *)
(* separators and the white-space tokens at both ends.                     *)
(***************************************************************************)
MaxPars == 3
MaxParLen == 4
MaxTokens == 4

SEP == <<0, 0>>

\* utils.py:58
sep_toks == <<SEP>>

\* tok(p) for the piece at position k of the text
tok(k) == [i \in 1..Len(text[k]) |-> <<k, i>>]

\* utils.py:57: the non-blank pieces, by position in the text
paragraphs == {k \in 1..Len(text) : Len(text[k]) > 0}

\* the token decodes to white space only
IsSpaceTok(t) == t = SEP \/ text[t[1]][t[2]] = "s"

\* str.strip() on the decoded tokens
RECURSIVE StripSep(_)
StripSep(toks) ==
    IF toks # <<>> /\ IsSpaceTok(Head(toks)) THEN StripSep(Tail(toks))
    ELSE IF toks # <<>> /\ IsSpaceTok(toks[Len(toks)])
    THEN StripSep(SubSeq(toks, 1, Len(toks) - 1))
    ELSE toks

\* detok(toks).strip()
detok_strip(toks) == StripSep(toks)

\* a variant without the clamp
overlap_unclamped == overlap_arg

\* utils.py:35
overlap == LET m == IF overlap_arg < max_tokens \div 2 THEN overlap_arg
                    ELSE max_tokens \div 2
           IN  IF m > 0 THEN m ELSE 0

\* utils.py:43-44
last_n(tokens, n) ==
    IF n > 0 /\ Len(tokens) > n
    THEN SubSeq(tokens, Len(tokens) - n + 1, Len(tokens))
    ELSE tokens

\* utils.py:46-55
RECURSIVE split_from(_, _, _, _)
split_from(tokens, win, stride, i) ==
    IF i >= Len(tokens) THEN <<>>
    ELSE LET hi == IF i + win < Len(tokens) THEN i + win ELSE Len(tokens)
             part == SubSeq(tokens, i + 1, hi)
         IN  IF i + win >= Len(tokens) THEN <<part>>
             ELSE <<part>> \o split_from(tokens, win, stride, i + stride)

\* a variant whose windows do not overlap
split_long_tokens_apart(tokens, win, ovlp) ==
    IF tokens = <<>> THEN <<>> ELSE split_from(tokens, win, win, 0)

split_long_tokens(tokens, win, ovlp) ==
    IF tokens = <<>> THEN <<>>
    ELSE split_from(tokens, win, IF win - ovlp > 1 THEN win - ovlp ELSE 1, 0)

\* the stripped pieces of up to MaxParLen tokens
Pieces ==
    {q \in UNION {[1..n -> {"w", "s"}] : n \in 0..MaxParLen} :
        q # <<>> => (q[1] = "w" /\ q[Len(q)] = "w")}

InitChunk ==
    /\ IdleLater
    /\ IdleCards
    /\ IdleGen
    /\ IdleVerify
    /\ IdlePipe
    /\ IdleExtract
    /\ IdleDedupe
    /\ cpc = "idle"
    /\ text \in UNION {[1..n -> Pieces] : n \in 0..MaxPars}
    /\ max_tokens \in 1..MaxTokens
    /\ overlap_arg \in -1..MaxTokens + 1
    /\ pidx = 0
    /\ buf = <<>>
    /\ chunks = <<>>

NextPar(k) ==
    IF \E j \in paragraphs : j > k
    THEN Min({j \in paragraphs : j > k})
    ELSE Len(text) + 1

\* utils.py:57-60
ChunkEnter ==
    /\ cpc = "idle"
    /\ cpc' = "loop"
    /\ pidx' = NextPar(0)
    /\ UNCHANGED <<text, max_tokens, overlap_arg, buf, chunks, gvars, vvars, pvars,
                 xvars, dvars, uvars, yvars>>

\* utils.py:62-70, a paragraph longer than max_tokens
ChunkLongParagraph ==
    /\ cpc = "loop"
    /\ pidx <= Len(text)
    /\ Len(tok(pidx)) > max_tokens
    /\ LET flushed == IF buf # <<>> THEN Append(chunks, detok_strip(buf))
                       ELSE chunks
           windows == split_long_tokens(tok(pidx), max_tokens, overlap)
       IN  chunks' = flushed \o [w \in 1..Len(windows) |-> detok_strip(windows[w])]
    /\ buf' = <<>>
    /\ pidx' = NextPar(pidx)
    /\ UNCHANGED <<cpc, text, max_tokens, overlap_arg, gvars, vvars, pvars,
                 xvars, dvars, uvars, yvars>>

\* utils.py:62-64, 71-76, a paragraph of at most max_tokens tokens
ChunkParagraph ==
    /\ cpc = "loop"
    /\ pidx <= Len(text)
    /\ Len(tok(pidx)) <= max_tokens
    /\ LET p_toks == tok(pidx)
           add_len == Len(p_toks) + Len(sep_toks)
           flush == buf # <<>> /\ Len(buf) + add_len > max_tokens
       IN  /\ chunks' = IF flush THEN Append(chunks, detok_strip(buf)) ELSE chunks
           /\ buf' = (IF flush THEN last_n(buf, overlap) ELSE buf)
                         \o p_toks \o sep_toks
    /\ pidx' = NextPar(pidx)
    /\ UNCHANGED <<cpc, text, max_tokens, overlap_arg, gvars, vvars, pvars,
                 xvars, dvars, uvars, yvars>>

\* utils.py:77-79
ChunkReturn ==
    /\ cpc = "loop"
    /\ pidx > Len(text)
    /\ chunks' = IF buf # <<>> THEN Append(chunks, detok_strip(buf)) ELSE chunks
    /\ cpc' = "done"
    /\ UNCHANGED <<text, max_tokens, overlap_arg, pidx, buf, gvars, vvars, pvars,
                 xvars, dvars, uvars, yvars>>

NextChunk == ChunkEnter \/ ChunkLongParagraph \/ ChunkParagraph \/ ChunkReturn

SpecChunk == InitChunk /\ [][NextChunk]_vars

(***************************************************************************)
(* Claims about the chunker, checked under SpecChunk.                      *)
(***************************************************************************)

\* C3: every chunk chunk_text produces has at most max_tokens tokens.
C3_ChunkWithinMax ==
    \A c \in 1..Len(chunks) : Len(chunks[c]) <= max_tokens

\* C3 witness: with a positive overlap, a chunk made of the carried-over
\* tokens and a following paragraph of at most max_tokens tokens is too long.
C3_Witness ==
    /\ cpc = "done" /\ overlap > 0
    /\ \A k \in paragraphs : Len(text[k]) <= max_tokens
    /\ \E c \in 1..Len(chunks) : Len(chunks[c]) > max_tokens

\* the tokens of the first k pieces of the text, in order
RECURSIVE ParTokens(_)
ParTokens(k) == IF k = 0 THEN <<>> ELSE ParTokens(k - 1) \o tok(k)

\* the paragraph tokens of chunk c that its predecessor does not hold
Fresh(c) ==
    LET prev == IF c = 1 THEN {}
                ELSE {chunks[c - 1][i] : i \in 1..Len(chunks[c - 1])}
        IsNew(t) == t # SEP /\ t \notin prev
    IN  SelectSeq(chunks[c], IsNew)

RECURSIVE Rebuilt(_)
Rebuilt(c) == IF c = 0 THEN <<>> ELSE Rebuilt(c - 1) \o Fresh(c)

\* C15: chunking loses no data: every token of every paragraph is in some
\* chunk, and the chunks, each without what it repeats from its predecessor,
\* concatenate to the paragraph tokens in their original order.
C15_ChunksLoseNothing ==
    cpc = "done" =>
        /\ \A k \in paragraphs : \A i \in 1..Len(text[k]) :
              \E c \in 1..Len(chunks) : \E j \in 1..Len(chunks[c]) :
                 chunks[c][j] = <<k, i>>
        /\ Rebuilt(Len(chunks)) = ParTokens(Len(text))

\* C15 witness: a token of a paragraph longer than max_tokens, a single
\* newline say, is in no chunk: it was at the edge of every window holding it
C15_Witness ==
    /\ cpc = "done"
    /\ \E k \in paragraphs :
          /\ Len(text[k]) > max_tokens
          /\ \E i \in 1..Len(text[k]) :
                /\ text[k][i] = "s"
                /\ \A c \in 1..Len(chunks) : \A j \in 1..Len(chunks[c]) :
                      chunks[c][j] # <<k, i>>

\* C25: when a step flushes the buffer because the next paragraph does not
\* fit, the new buffer is the last min(overlap, length of the flushed
\* buffer) tokens of the flushed buffer, then the paragraph and the
\* separator; with overlap 0 nothing of the flushed buffer is carried over.
C25_SeedIsLastOverlapTokens ==
    [][(cpc = "loop" /\ cpc' = "loop" /\ chunks' # chunks /\ buf' # <<>>)
       => LET m    == IF overlap < Len(buf) THEN overlap ELSE Len(buf)
              seed == SubSeq(buf, Len(buf) - m + 1, Len(buf))
          IN  /\ buf' = seed \o tok(pidx) \o sep_toks
              /\ overlap = 0 => buf' = tok(pidx) \o sep_toks
      ]_vars

\* C25 witness: the overlap is 0, the buffer has been flushed and the new
\* buffer still holds the tokens of the chunk just written
C25_Witness ==
    /\ cpc = "loop" /\ overlap = 0 /\ chunks # <<>> /\ buf # <<>>
    /\ Len(chunks) = 1
    /\ \A i \in 1..Len(chunks[1]) : buf[i] = chunks[1][i]
    /\ Len(buf) > Len(chunks[1]) + 1

\* C26: the overlap chunk_text works with is the requested one clamped to
\* 0 .. max_tokens \div 2, so it is at most half of max_tokens whatever
\* was requested.
C26_OverlapClamped ==
    /\ overlap \in 0..(max_tokens \div 2)
    /\ 2 * overlap <= max_tokens
    /\ overlap_arg < 0 => overlap = 0
    /\ overlap_arg > max_tokens \div 2 => overlap = max_tokens \div 2
    /\ overlap_arg \in 0..(max_tokens \div 2) => overlap = overlap_arg

\* C26 witness: an overlap larger than max_tokens was requested; a chunk
\* was flushed and the buffer carries over half of max_tokens
C26_Witness ==
    /\ cpc = "loop" /\ overlap_arg > max_tokens /\ max_tokens >= 2
    /\ overlap = max_tokens \div 2
    /\ Len(chunks) = 1 /\ Len(buf) > overlap
    /\ \A i \in 1..overlap : buf[i] \in {SEP} \cup {<<1, j>> : j \in 1..MaxParLen}
    /\ buf[overlap + 1][1] > 1

\* C27: the step for a paragraph longer than max_tokens first flushes a
\* pending buffer as a chunk of its own and then adds one chunk per window;
\* every window has at most max_tokens tokens, window k (from 0) starts at
\* token k * max(1, max_tokens - overlap), two consecutive windows share
\* exactly overlap tokens, and the windows cover the paragraph.
C27_LongParagraphWindows ==
    [][(cpc = "loop" /\ pidx <= Len(text) /\ pidx' # pidx
            /\ Len(text[pidx]) > max_tokens)
       => LET p      == tok(pidx)
              W      == split_long_tokens(p, max_tokens, overlap)
              stride == IF max_tokens - overlap > 1
                        THEN max_tokens - overlap ELSE 1
              pre    == IF buf # <<>> THEN <<StripSep(buf)>> ELSE <<>>
              Toks(w) == {W[w][i] : i \in 1..Len(W[w])}
          IN  /\ Len(W) >= 2
              /\ \A w \in 1..Len(W) :
                    /\ Len(W[w]) \in 1..max_tokens
                    /\ \A i \in 1..Len(W[w]) :
                          W[w][i] = p[(w - 1) * stride + i]
              /\ \A w \in 1..(Len(W) - 1) :
                    /\ Len(W[w]) = max_tokens
                    /\ Cardinality(Toks(w) \cap Toks(w + 1)) = overlap
              /\ UNION {Toks(w) : w \in 1..Len(W)}
                    = {p[i] : i \in 1..Len(p)}
              /\ chunks' = chunks \o pre
                              \o [w \in 1..Len(W) |-> StripSep(W[w])]
              /\ buf' = <<>>
      ]_vars

\* C27 witness: a short paragraph was pending when a long one came; its
\* buffer is the first chunk and the overlapping windows follow
C27_Witness ==
    /\ cpc = "loop" /\ buf = <<>> /\ overlap > 0
    /\ Len(text) >= 2 /\ pidx >= 3
    /\ Len(text[1]) \in 1..max_tokens /\ Len(text[2]) > max_tokens
    /\ Len(chunks) >= 3
    /\ chunks[1] = StripSep(tok(1))
    /\ chunks[2][1] = <<2, 1>>
    /\ \E i \in 1..Len(chunks[3]) : \E j \in 1..Len(chunks[2]) :
          chunks[3][i] = chunks[2][j]

(***************************************************************************)
(* Verifier / Reconciler: FlashcardBackend.verify_csv (backend.py).        *)
(* A CSV text is the list of rows csv.reader yields for it, or a text on   *)
(* which csv.reader raises (bad).  A row is the sequence of its fields.    *)
(***************************************************************************)
MaxFields == 7

MaxRows == 2

Header == <<"Topic", "Subtopic", "Question", "Answer", "Source", "Details">>

FullCards ==
    { <<"T", "S", "Q1",  "A1", "", "">>,
      <<"T", "S", "Q1",  "A2", "", "">>,
      <<"T", "S", "Q1?", "A1", "", "">>,
      <<"T", "S", "Q2",  "A1", "", "">> }

\* the first card cut or padded to n fields
Cut(n) == [i \in 1..n |-> IF i <= 6 THEN <<"T", "S", "Q1", "A1", "", "">>[i]
                                    ELSE "x"]

Rows == FullCards \cup {Cut(n) : n \in 0..MaxFields}

\* decks of up to MaxRows rows, of which at most one is not a six-field card
Decks ==
    {d \in UNION {[1..n -> Rows] : n \in 0..MaxRows} :
        \A i, j \in 1..Len(d) :
            d[i] \notin FullCards /\ d[j] \notin FullCards => i = j}

BadText == [bad |-> TRUE, lines |-> <<>>]

OkText(lines) == [bad |-> FALSE, lines |-> lines]

\* what a caller may pass as csv_text: unparsable, empty, or a first line
\* (header or blank) followed by a deck
InputTexts ==
    {BadText, NoText}
        \cup {OkText(<<h>> \o d) : h \in {Header, <<>>}, d \in Decks}

\* what _gen may return: stripped and non-empty, so the first line is not blank
GatewayTexts == {BadText} \cup {OkText(<<Header>> \o d) : d \in Decks}

\* headers = next(csv_reader, None); if headers: cards = [row for row in csv_reader]
ParseCards(t) ==
    IF t.lines # <<>> /\ Head(t.lines) # <<>> THEN Tail(t.lines) ELSE <<>>

\* a variant that gives a row of two fields a key
card_key_two(row) ==
    IF Len(row) >= 2
    THEN SubSeq(row, 1, IF Len(row) < 3 THEN Len(row) ELSE 3)
    ELSE <<>>

\* None is <<>>
card_key(row) == IF Len(row) >= 3 THEN SubSeq(row, 1, 3) ELSE <<>>

HasKey(d, k) == \E j \in 1..Len(d) : card_key(d[j]) = k

Lookup(d, k) == d[CHOOSE j \in 1..Len(d) : card_key(d[j]) = k]

\* {card_key(row): row for row in cards if card_key(row)}: the values in
\* insertion order; a repeated key keeps its place and takes the later row
RECURSIVE DictUpTo(_, _)
DictUpTo(cards, i) ==
    IF i = 0 THEN <<>>
    ELSE LET d   == DictUpTo(cards, i - 1)
             row == cards[i]
             k   == card_key(row)
         IN  IF k = <<>> THEN d
             ELSE IF HasKey(d, k)
                  THEN [j \in 1..Len(d) |->
                           IF card_key(d[j]) = k THEN row ELSE d[j]]
                  ELSE Append(d, row)

DictOf(cards) == DictUpTo(cards, Len(cards))

\* row[3:]
Tail3(row) == SubSeq(row, 4, Len(row))

\* the names of the fields lo..6 in which two six-field rows differ
ChangedFields(o, v, lo) == {Header[i] : i \in {j \in lo..6 : o[j] # v[j]}}

\* row[5] raises IndexError on a row of fewer than six fields
Short(row) == Len(row) < 6

normalize_text(s) ==
    CASE s = "Q1"  -> "q1"
      [] s = "Q1?" -> "q1"
      [] s = "Q2"  -> "q2"
      [] s = "T"   -> "t"
      [] s = "U"   -> "u"
      [] OTHER     -> s

\* fuzzywuzzy: 0 when a string is empty, 100 on equal strings
token_sort_ratio(a, b) ==
    IF a = "" \/ b = "" THEN 0 ELSE IF a = b THEN 100 ELSE 50

partial_ratio(a, b) ==
    IF a = "" \/ b = "" THEN 0 ELSE IF a = b THEN 100 ELSE 50

\* a variant with a threshold of 81
similarity_threshold_81 == 81

\* line 270
similarity_threshold == 80

\* ten times overall_sim, so that the weights are integers
overall_sim(o, v) ==
      6 * token_sort_ratio(normalize_text(o[3]), normalize_text(v[3]))
    + 2 * partial_ratio(normalize_text(o[3]), normalize_text(v[3]))
    + 2 * token_sort_ratio(normalize_text(o[1]), normalize_text(v[1]))

\* lines 280-312: the scan of the unused unpaired verified rows for one
\* unpaired original; the first row with the strictly greatest score wins
RECURSIVE BestMatch(_, _, _, _, _)
BestMatch(o, uv, used, j, best) ==
    IF j > Len(uv) THEN best
    ELSE IF j \in used THEN BestMatch(o, uv, used, j + 1, best)
    ELSE IF Short(o) \/ Short(uv[j]) THEN [best EXCEPT !.raised = TRUE]
    ELSE LET sc == overall_sim(o, uv[j])
         IN  BestMatch(o, uv, used, j + 1,
                 IF sc > best.score
                 THEN [idx |-> j, score |-> sc, raised |-> FALSE]
                 ELSE best)

\* a variant that does not mark the matched row
mark_used_not(used, idx) == used

\* line 315: used_verified_indices.add(best_match[0])
mark_used(used, idx) == used \cup {idx}

\* lines 276-318: the loop over the unpaired originals
RECURSIVE FuzzyLoop(_, _, _, _, _, _)
FuzzyLoop(uo, uv, i, used, fuzzy, removed) ==
    IF i > Len(uo)
    THEN [raised |-> FALSE, used |-> used, fuzzy |-> fuzzy, removed |-> removed]
    ELSE LET b == BestMatch(uo[i], uv, used, 1,
                            [idx |-> 0, score |-> 0, raised |-> FALSE])
         IN  IF b.raised
             THEN [raised |-> TRUE, used |-> used, fuzzy |-> fuzzy,
                   removed |-> removed]
             ELSE IF b.score >= similarity_threshold * 10
                  THEN FuzzyLoop(uo, uv, i + 1, mark_used(used, b.idx),
                           Append(fuzzy,
                               [original |-> uo[i], verified |-> uv[b.idx],
                                changed |-> ChangedFields(uo[i], uv[b.idx], 1),
                                score |-> b.score]),
                           removed)
                  ELSE FuzzyLoop(uo, uv, i + 1, used, fuzzy,
                                 Append(removed, uo[i]))

\* lines 241-360: the audit; it ends by raising IndexError or by logging
Audit(oc, vc) ==
    LET original_dict == DictOf(oc)
        verified_dict == DictOf(vc)
        IsMatched(row) == /\ HasKey(original_dict, card_key(row))
                          /\ HasKey(verified_dict, card_key(row))
        Differs(v) ==
            Tail3(Lookup(original_dict, card_key(v))) # Tail3(v)
        exact == SelectSeq(verified_dict, IsMatched)
        changed == SelectSeq(exact, Differs)
        exact_raises ==
            \E j \in 1..Len(changed) :
                \/ Short(changed[j])
                \/ Short(Lookup(original_dict, card_key(changed[j])))
        rewritten_cards ==
            [j \in 1..Len(changed) |->
                LET o == Lookup(original_dict, card_key(changed[j]))
                IN  [original |-> o, verified |-> changed[j],
                     changed |-> ChangedFields(o, changed[j], 4),
                     score |-> 1000]]
        unchanged_count == Len(exact) - Len(changed)
        Unpaired(row) == ~IsMatched(row)
        unpaired_originals == SelectSeq(original_dict, Unpaired)
        unpaired_verifieds == SelectSeq(verified_dict, Unpaired)
        fz == FuzzyLoop(unpaired_originals, unpaired_verifieds, 1, {},
                        <<>>, <<>>)
        added_idx == {j \in 1..Len(unpaired_verifieds) : j \notin fz.used}
        IsAdded(row) == \E j \in added_idx : unpaired_verifieds[j] = row
        log_raises ==
            \/ \E j \in 1..Len(fz.removed) : Short(fz.removed[j])
            \/ \E j \in added_idx : Short(unpaired_verifieds[j])
    IN  IF exact_raises \/ fz.raised \/ log_raises
        THEN [k |-> "IndexError"]
        ELSE [k |-> "logged",
              removed_cards   |-> fz.removed,
              added_cards     |-> SelectSeq(unpaired_verifieds, IsAdded),
              rewritten_cards |-> rewritten_cards,
              fuzzy_rewritten |-> fz.fuzzy,
              unchanged_count |-> unchanged_count]

\* a variant whose parse fallback returns the Gateway's text
verify_return_verified(csvt, vert) == vert

\* the value of the return statements at lines 215, 230 and 362
verify_return(csvt, vert) ==
    IF csvt.bad \/ vert.bad THEN csvt ELSE vert

InitVerify ==
    /\ IdleLater
    /\ IdleCards
    /\ IdleGen
    /\ IdleChunk
    /\ IdlePipe
    /\ IdleExtract
    /\ IdleDedupe
    /\ vpc = "idle"
    /\ csv_text \in InputTexts
    /\ verified_csv = NoText
    /\ original_cards = <<>>
    /\ verified_cards = <<>>
    /\ audit = NoAudit
    /\ v_out = [k |-> "-"]

\* lines 207-215
VerifyParseOriginal ==
    /\ UNCHANGED <<gvars, cvars, pvars, xvars, dvars, uvars, yvars>>
    /\ vpc = "idle"
    /\ IF csv_text.bad
       THEN /\ vpc' = "returned"
            /\ v_out' = [k |-> "return",
                         text |-> verify_return(csv_text, verified_csv)]
            /\ UNCHANGED original_cards
       ELSE /\ vpc' = "gen"
            /\ original_cards' = ParseCards(csv_text)
            /\ UNCHANGED v_out
    /\ UNCHANGED <<csv_text, verified_csv, verified_cards, audit>>

\* lines 218-219: the Gateway returns a text
VerifyGen ==
    /\ UNCHANGED <<gvars, cvars, pvars, xvars, dvars, uvars, yvars>>
    /\ vpc = "gen"
    /\ \E t \in GatewayTexts : verified_csv' = t
    /\ vpc' = "parse"
    /\ UNCHANGED <<csv_text, original_cards, verified_cards, audit, v_out>>

\* lines 218-219: the Gateway's terminal RuntimeError passes through
VerifyGenRaises ==
    /\ UNCHANGED <<gvars, cvars, pvars, xvars, dvars, uvars, yvars>>
    /\ vpc = "gen"
    /\ vpc' = "raised"
    /\ v_out' = [k |-> "raise", exc |-> "RuntimeError"]
    /\ UNCHANGED <<csv_text, verified_csv, original_cards, verified_cards,
                   audit>>

\* lines 222-230
VerifyParseVerified ==
    /\ UNCHANGED <<gvars, cvars, pvars, xvars, dvars, uvars, yvars>>
    /\ vpc = "parse"
    /\ IF verified_csv.bad
       THEN /\ vpc' = "returned"
            /\ v_out' = [k |-> "return",
                         text |-> verify_return(csv_text, verified_csv)]
            /\ UNCHANGED verified_cards
       ELSE /\ vpc' = "audit"
            /\ verified_cards' = ParseCards(verified_csv)
            /\ UNCHANGED v_out
    /\ UNCHANGED <<csv_text, verified_csv, original_cards, audit>>

\* lines 232-362
VerifyAudit ==
    /\ UNCHANGED <<gvars, cvars, pvars, xvars, dvars, uvars, yvars>>
    /\ vpc = "audit"
    /\ LET a == Audit(original_cards, verified_cards)
       IN  IF a.k = "IndexError"
           THEN /\ vpc' = "raised"
                /\ v_out' = [k |-> "raise", exc |-> "IndexError"]
                /\ UNCHANGED audit
           ELSE /\ vpc' = "returned"
                /\ audit' = a
                /\ v_out' = [k |-> "return",
                             text |-> verify_return(csv_text, verified_csv)]
    /\ UNCHANGED <<csv_text, verified_csv, original_cards, verified_cards>>

NextVerify ==
    \/ VerifyParseOriginal
    \/ VerifyGen
    \/ VerifyGenRaises
    \/ VerifyParseVerified
    \/ VerifyAudit

SpecVerify == InitVerify /\ [][NextVerify]_vars

\* C7: whenever both the original and the verified text parse, verify_csv
\* returns the Gateway's verified text and does not raise: the only
\* exception that leaves verify_csv is the Gateway's own.
C7_AuditHasNoEffect ==
    /\ vpc = "raised" => v_out.exc = "RuntimeError"
    /\ (vpc = "returned" /\ ~csv_text.bad /\ ~verified_csv.bad
            /\ verified_csv # NoText)
          => v_out.text = verified_csv

\* the audit raised on decks that both parsed, the original holding a
\* four-field row
C7_Witness ==
    /\ vpc = "raised" /\ v_out.exc = "IndexError"
    /\ ~csv_text.bad /\ ~verified_csv.bad
    /\ \E j \in 1..Len(original_cards) : Len(original_cards[j]) = 4

\* C8: when the original or the verified text does not parse, verify_csv
\* returns csv_text itself (and, for the original, without calling the
\* Gateway); whatever it returns is csv_text or the Gateway's text.
C8_ReturnsInputOrVerified ==
    vpc = "returned" =>
        /\ v_out.k = "return"
        /\ v_out.text \in {csv_text, verified_csv}
        /\ csv_text.bad => v_out.text = csv_text /\ verified_csv = NoText
        /\ verified_csv.bad => v_out.text = csv_text

\* the verified text did not parse and the input, a different text, came back
C8_Witness ==
    /\ vpc = "returned" /\ ~csv_text.bad /\ verified_csv.bad
    /\ v_out.text = csv_text /\ csv_text # verified_csv
    /\ original_cards # <<>>


(***************************************************************************)
(* Orchestrator: _start_pipeline and _pipeline (ui/pipeline.py).           *)
(* A CSV text is named by the chunk it belongs to (0: the whole deck of    *)
(* the legacy pipeline) and the call that wrote it (0: generate_csv,       *)
(* k: verification pass k).  A deck is the sequence of the texts joined in *)
(* it.  The state between two steps is a point where the coroutine or a    *)
(* task is suspended in an await.  Progress is in 1/10000.                 *)
(***************************************************************************)
Csv(c, n) == [chunk |-> c, by |-> n]

\* two facts with the same text and different topics
Facts == {Fact("A", "f1"), Fact("B", "f1")}

\* extract_facts returns a list of facts; here at most one
ExtractResults == {<<>>} \cup {<<f>> : f \in Facts}

\* the stage a progress label belongs to
StageNo(label) ==
    CASE label = "read" -> 1
      [] label \in {"chunk", "chunked"} -> 2
      [] label = "extract" -> 3
      [] label \in {"dedupe", "unique"} -> 4
      [] label \in {"generate", "generated"} -> 5
      [] label \in {"verify", "verified"} -> 6
      [] label = "ready" -> 7
      [] OTHER -> 0

\* a dict is the sequence of its items in insertion order
Keys(d) == {d[i][1] : i \in 1..Len(d)}

Get(d, k) == d[CHOOSE i \in 1..Len(d) : d[i][1] = k][2]

Put(d, k, v) ==
    IF k \in Keys(d)
    THEN [i \in 1..Len(d) |-> IF d[i][1] = k THEN <<k, v>> ELSE d[i]]
    ELSE Append(d, <<k, v>>)

\* lines 168-178 and 225-234: the texts of a dict joined under one header
Combine(d) == [i \in 1..Len(d) |-> d[i][2]]

RECURSIVE sorted(_)
sorted(S) ==
    IF S = {} THEN <<>>
    ELSE LET m == CHOOSE x \in S : \A y \in S : x <= y
         IN  <<m>> \o sorted(S \ {m})

\* a variant that compares a fact with the one before it only
RECURSIVE DedupeUpTo_adjacent(_, _)
DedupeUpTo_adjacent(fa, i) ==
    IF i = 0 THEN <<>>
    ELSE IF i > 1 /\ fa[i - 1][2] = fa[i][2]
         THEN DedupeUpTo_adjacent(fa, i - 1)
         ELSE Append(DedupeUpTo_adjacent(fa, i - 1), fa[i])

\* lines 118-124: the first (chunk_id, fact) of every fact, two facts being
\* the same when all their fields are equal
RECURSIVE DedupeUpTo(_, _)
DedupeUpTo(fa, i) ==
    IF i = 0 THEN <<>>
    ELSE IF \E j \in 1..(i - 1) : fa[j][2] = fa[i][2]
         THEN DedupeUpTo(fa, i - 1)
         ELSE Append(DedupeUpTo(fa, i - 1), fa[i])

Cur == [a |-> app, l |-> loc, t |-> tasks, h |-> hist]

Becomes(s) ==
    /\ app' = s.a
    /\ loc' = s.l
    /\ tasks' = s.t
    /\ hist' = s.h

\* app.progress.value = value (lines 38, 72 and 268)
report(s, value) ==
    [s EXCEPT !.a.progress = value, !.h.reported = Append(@, value)]

\* _set_stage
set_stage(s, label, value) ==
    [report(s, value) EXCEPT !.a.progress_label = label]

\* _pipeline returns or raises; lines 25-34 of _start_pipeline
Finish(s, outcome) ==
    [s EXCEPT !.l.pc = "finished", !.h.outcome = outcome,
              !.a.progress = None]

\* app.snack(message, colour)
snack(s, colour) == [s EXCEPT !.h.snacks = Append(@, colour)]

\* a variant that clears the results of the run before
Abort_clearing(s, outcome) ==
    Finish(snack([s EXCEPT !.a.all_facts = <<>>, !.a.card_rows = <<>>],
                 "err"),
           outcome)

\* lines 46-47, 49-50, 78-79 and 335-336: an error notification, and
\* _pipeline returns
Abort(s, outcome) == Finish(snack(s, "err"), outcome)

\* preview.py lines 10-21: the header and the rows of the text
parse_cards_to_rows(csv) == <<"header">> \o csv

\* a variant with the one clause `except Exception`, CancelledError being
\* an Exception
handler_generic(exc) == "fatal"

\* lines 25-30: the except clauses, by the exception _pipeline raised
handler(exc) == IF exc = "CancelledError" THEN "cancelled" ELSE "fatal"

\* _pipeline raises exc
Raises(s, exc) ==
    LET colour == IF handler(exc) = "cancelled" THEN "warn" ELSE "err"
    IN  [Finish(snack(s, colour), handler(exc)) EXCEPT !.h.raised = exc]

\* a variant of the fallback that gives the chunk no text
verify_fallback_empty(csv_to_verify) == NoCsv

\* lines 199 and 207: what verify_one returns when it saw the flag or when
\* verify_csv raised
verify_fallback(csv_to_verify) == csv_to_verify

\* the task of chunk c is done: as_completed hands it to the loop
TaskDone(s, c, rec) ==
    [s EXCEPT !.t.u[c] = [rec EXCEPT !.st = "done"], !.t.q = Append(@, c)]

\* extract_one lines 94-97, generate_one lines 142-145, verify_one lines
\* 197-201: the task has the semaphore, looks at the flag and awaits the
\* backend
StartOne(s, c) ==
    LET t   == s.t.u[c]
        cur == s.l.current_csv_per_chunk
    IN  IF s.l.pc = "verify" /\ c \notin Keys(cur)
        THEN TaskDone(s, c, [t EXCEPT !.how = "KeyError"])
        ELSE IF s.a.cancel_event
        THEN TaskDone(s, c,
                 [t EXCEPT
                    !.how = "cancel",
                    !.input = IF s.l.pc = "verify" THEN Get(cur, c) ELSE @,
                    !.csv = IF s.l.pc = "verify"
                            THEN verify_fallback(Get(cur, c)) ELSE @])
        ELSE [s EXCEPT
                 !.t.u[c].st = "running",
                 !.t.u[c].input =
                     IF s.l.pc = "verify" THEN Get(cur, c) ELSE @]

\* if app.cancel_event.is_set(): raise asyncio.CancelledError; else the
\* coroutine is suspended in the await named pc
LoopTop(s, pc) ==
    IF s.a.cancel_event THEN Raises(s, "CancelledError")
    ELSE [s EXCEPT !.l.pc = pc]

\* tasks = [...one(c) for c in ids]; as_completed(tasks)
StartTasks(s, ids) ==
    [s EXCEPT !.t = [u |-> [c \in 1..MaxChunks |->
                               IF c \in ids
                               THEN [NoTask EXCEPT !.st = "pending"]
                               ELSE NoTask],
                     q |-> <<>>],
              !.l.done = 0]


\* lines 239-247 and 359-367
Ready(s) ==
    Finish(snack(snack(set_stage(set_stage(s, "verified", 9500),
                                 "ready", 10000),
                       "ok"),
                 "ok"),
           "ready")

\* lines 193-220: a verification pass of the per-chunk pipeline begins;
\* lines 222-237: it ends
RECURSIVE BeginPass(_, _)
RECURSIVE EndPass(_)
BeginPass(s, r) ==
    IF r >= s.a.verification_runs THEN Ready(s)
    ELSE LET s1 == set_stage([s EXCEPT !.l.run = r], "verify",
                             7500 + 800 * r)
             s2 == [StartTasks(s1, Keys(s.l.facts_unique))
                        EXCEPT !.l.verified_dict = <<>>]
         IN  IF s.l.active_chunks = <<>> THEN EndPass(s2)
             ELSE LoopTop(s2, "verify")

EndPass(s) ==
    BeginPass([s EXCEPT !.h.last_pass =
                            [run |-> s.l.run,
                             pre |-> s.l.current_csv_per_chunk,
                             how |-> [c \in 1..MaxChunks |-> s.t.u[c].how],
                             ret |-> [c \in 1..MaxChunks |-> s.t.u[c].ret]],
                        !.l.current_csv_per_chunk = s.l.verified_dict,
                        !.a.verified_csv = Combine(s.l.verified_dict),
                        !.a.card_rows =
                            parse_cards_to_rows(Combine(s.l.verified_dict))],
              s.l.run + 1)

\* a variant with three passes when double_check is on
verification_runs_three(double_check) == IF double_check THEN 3 ELSE 1

\* lines 192 and 347
verification_runs(double_check) == IF double_check THEN 2 ELSE 1

\* lines 167-192
AfterGenerate(s) ==
    LET s1 == set_stage([s EXCEPT !.a.generated_csv =
                                      Combine(s.l.generated_dict),
                                  !.a.card_rows =
                                      parse_cards_to_rows(
                                          Combine(s.l.generated_dict))],
                        "generated", 7000)
    IN  IF s.a.cancel_event THEN Raises(s1, "CancelledError")
        ELSE BeginPass([s1 EXCEPT !.l.current_csv_per_chunk =
                                      s.l.generated_dict,
                                  !.a.verification_runs =
                                      verification_runs(s.a.double_check)],
                       0)

\* lines 116-160 of the per-chunk pipeline, lines 313-319 of the legacy one;
\* facts_all is not read after line 120 and leaves the state there
AfterExtract(s) ==
    LET s1 == set_stage(s, "dedupe", 5200)
    IN  IF s.a.new_pipeline
        THEN LET fu == DedupeUpTo(s.l.facts_all, Len(s.l.facts_all))
                 s2 == set_stage(
                          [s1 EXCEPT !.l.facts_all = <<>>,
                                     !.l.facts_unique = fu,
                                     !.a.all_facts =
                                         [i \in 1..Len(fu) |-> fu[i][2]],
                                     !.l.active_chunks = sorted(Keys(fu)),
                                     !.l.generated_dict = <<>>],
                          "unique", 5700)
                 s3 == StartTasks(set_stage(s2, "generate", 6100), Keys(fu))
             IN  IF Keys(fu) = {} THEN AfterGenerate(s3)
                 ELSE LoopTop(s3, "generate")
        ELSE [s1 EXCEPT !.l.pc = "dedupe"]

\* lines 348-352: a verification pass of the legacy pipeline begins
LegacyBeginPass(s, r) ==
    IF r >= s.a.verification_runs THEN Ready(s)
    ELSE [set_stage(s, "verify", 7500 + 800 * r)
             EXCEPT !.l.run = r, !.l.file2 = s.a.generated_csv,
                    !.l.pc = "verify_csv"]

\* lines 74-83: the texts are joined and chunking is awaited
ReadDone(s) ==
    IF ~(s.l.has_text \/ s.l.pasted_text) THEN Abort(s, "no_text")
    ELSE [set_stage(s, "chunk", 1600) EXCEPT !.l.pc = "chunk"]

\* what the application holds when a run starts: nothing, or the results
\* of the run before
Previous ==
    {[all_facts |-> <<>>, generated_csv |-> <<>>, verified_csv |-> <<>>,
      card_rows |-> <<>>],
     [all_facts |-> <<Fact("A", "f1")>>, generated_csv |-> <<Csv(1, 0)>>,
      verified_csv |-> <<Csv(1, 1)>>,
      card_rows |-> parse_cards_to_rows(<<Csv(1, 1)>>)]}

InitPipe ==
    /\ IdleLater
    /\ IdleCards
    /\ IdleChunk
    /\ IdleVerify
    /\ IdleExtract
    /\ IdleDedupe
    /\ gpc = "idle" /\ client \in BOOLEAN /\ type = "default"
    /\ prompt = "p1" /\ attempt = 0 /\ delay = 1 /\ last_err = NoErr
    /\ calls = 0 /\ nfail = 0 /\ kinds = {} /\ sleeps = <<>>
    /\ gen_out = [k |-> "-"]
    /\ app \in {[IdleApp EXCEPT !.new_pipeline = np, !.double_check = dc,
                                !.selected_files = f,
                                !.all_facts = pv.all_facts,
                                !.generated_csv = pv.generated_csv,
                                !.verified_csv = pv.verified_csv,
                                !.card_rows = pv.card_rows] :
                   np \in BOOLEAN, dc \in BOOLEAN, f \in 0..MaxFiles,
                   pv \in Previous}
    /\ loc \in {[IdleLoc EXCEPT !.pasted_text = pt,
                                !.max_workers = max_workers(n)] :
                   pt \in BOOLEAN, n \in CpuCounts}
    /\ tasks = NoTasks
    /\ hist = NoHist

Pending == {c \in 1..MaxChunks : tasks.u[c].st = "pending"}

Running == {c \in 1..MaxChunks : tasks.u[c].st = "running"}

\* a variant without the gate: a waiting task starts at once
Startable_ungated == Pending # {}

\* asyncio.Semaphore(max_workers): a waiting task can take a free slot
Startable == Pending # {} /\ Cardinality(Running) < loc.max_workers

\* a variant of the loop that stops one unit short
Exhausted_early(d, n) == d >= n - 1

\* for coro in asyncio.as_completed(tasks): the loop ends when it has
\* awaited as many results as there are tasks
Exhausted(d, n) == d >= n

\* _start_pipeline lines 16-24, _pipeline lines 43-58
PipeStart ==
    /\ UNCHANGED <<gvars, cvars, vvars, xvars, dvars, uvars, yvars>>
    /\ loc.pc = "idle"
    /\ LET s0 == [Cur EXCEPT !.a.cancel_event = FALSE, !.a.progress = 0,
                             !.a.progress_label = ""]
           s1 == set_stage(s0, "read", 200)
       IN  Becomes(
             IF app.selected_files = 0 /\ ~loc.pasted_text
             THEN Abort(s0, "no_input")
             ELSE IF ~client THEN Abort(s0, "no_key")
             ELSE IF app.selected_files = 0 THEN ReadDone(s1)
             ELSE LoopTop(s1, "read"))

\* lines 56-83: a file has been read (every file through to_thread); t
\* tells whether it held any text
PipeFileRead ==
    /\ UNCHANGED <<gvars, cvars, vvars, xvars, dvars, uvars, yvars>>
    /\ loc.pc = "read"
    /\ \E t \in BOOLEAN :
         LET i  == loc.fidx + 1
             n  == app.selected_files
             s1 == report([Cur EXCEPT !.l.fidx = i, !.l.has_text = @ \/ t],
                          200 + (1000 * i) \div n)
         IN  Becomes(IF i < n THEN LoopTop(s1, "read") ELSE ReadDone(s1))

\* lines 83-110: chunk_text has returned n chunks
PipeChunked ==
    /\ UNCHANGED <<gvars, cvars, vvars, xvars, dvars, uvars, yvars>>
    /\ loc.pc = "chunk"
    /\ \E n \in 1..MaxChunks :
         LET s1 == set_stage(
                      set_stage([Cur EXCEPT !.l.nchunks = n,
                                            !.l.facts_all = <<>>],
                                "chunked", 2000),
                      "extract", 2200)
         IN  Becomes(LoopTop(StartTasks(s1, 1..n), "extract"))

\* lines 108-114 (304-310), then what follows the loop
PipeCollectExtract ==
    /\ UNCHANGED <<gvars, cvars, vvars, xvars, dvars, uvars, yvars>>
    /\ loc.pc = "extract"
    /\ tasks.q # <<>>
    /\ ~Startable
    /\ LET c  == Head(tasks.q)
           d  == loc.done + 1
           fs == tasks.u[c].facts
           s1 == set_stage(
                    [Cur EXCEPT !.t.q = Tail(@),
                                !.l.facts_all =
                                    @ \o IF app.new_pipeline
                                         THEN [i \in 1..Len(fs) |->
                                                  <<c, fs[i]>>]
                                         ELSE fs,
                                !.l.done = d],
                    "extract", 2200 + (2800 * d) \div loc.nchunks)
       IN  Becomes(IF ~Exhausted(d, loc.nchunks) THEN LoopTop(s1, "extract")
                   ELSE AfterExtract(s1))

\* legacy lines 317-332: the deduplication thread has returned
PipeDeduped ==
    /\ UNCHANGED <<gvars, cvars, vvars, xvars, dvars, uvars, yvars>>
    /\ loc.pc = "dedupe"
    /\ LET fu == deduplicate_facts(loc.facts_all, Len(loc.facts_all))
           s1 == set_stage([Cur EXCEPT !.l.facts_all = fu,
                                       !.a.all_facts = fu],
                           "unique", 5700)
       IN  Becomes([set_stage(s1, "generate", 6100)
                       EXCEPT !.l.pc = "generate_csv"])


\* lines 158-165, then what follows the loop
PipeCollectGenerate ==
    /\ UNCHANGED <<gvars, cvars, vvars, xvars, dvars, uvars, yvars>>
    /\ loc.pc = "generate"
    /\ tasks.q # <<>>
    /\ ~Startable
    /\ LET c  == Head(tasks.q)
           d  == loc.done + 1
           n  == Len(loc.active_chunks)
           csv_str == tasks.u[c].csv
           s1 == set_stage(
                    [Cur EXCEPT !.t.q = Tail(@),
                                !.l.generated_dict =
                                    IF csv_str # NoCsv
                                    THEN Put(@, c, csv_str) ELSE @,
                                !.l.done = d],
                    "generate", 6100 + (900 * d) \div n)
       IN  Becomes(IF ~Exhausted(d, n) THEN LoopTop(s1, "generate")
                   ELSE AfterGenerate(s1))

\* lines 212-220, then what follows the loop; an exception of the task
\* leaves _pipeline at the await
PipeCollectVerify ==
    /\ UNCHANGED <<gvars, cvars, vvars, xvars, dvars, uvars, yvars>>
    /\ loc.pc = "verify"
    /\ tasks.q # <<>>
    /\ ~Startable
    /\ LET c  == Head(tasks.q)
           d  == loc.done + 1
           n  == Len(loc.active_chunks)
           s1 == set_stage(
                    [Cur EXCEPT !.t.q = Tail(@),
                                !.l.verified_dict =
                                    Put(@, c, tasks.u[c].csv),
                                !.l.done = d],
                    "verify",
                    7500 + 800 * loc.run + (800 * d) \div n)
       IN  Becomes(IF tasks.u[c].how = "KeyError"
                   THEN Raises([Cur EXCEPT !.t.q = Tail(@)], "KeyError")
                   ELSE IF ~Exhausted(d, n) THEN LoopTop(s1, "verify")
                   ELSE EndPass(s1))

\* legacy lines 329-352: generate_csv has returned or raised
PipeGenerated ==
    /\ UNCHANGED <<gvars, cvars, vvars, xvars, dvars, uvars, yvars>>
    /\ loc.pc = "generate_csv"
    /\ \E ok \in BOOLEAN :
         LET s1 == set_stage([Cur EXCEPT
                                !.a.generated_csv = <<Csv(0, 0)>>,
                                !.a.card_rows =
                                    parse_cards_to_rows(<<Csv(0, 0)>>)],
                             "generated", 7000)
         IN  Becomes(
               IF ~ok
               THEN Abort(Cur, "gen_failed")
               ELSE IF app.cancel_event THEN Raises(s1, "CancelledError")
               ELSE LegacyBeginPass(
                        [s1 EXCEPT !.a.verification_runs =
                                       verification_runs(app.double_check)],
                        0))

\* a variant of the handler that goes on with the next pass
on_verify_error_next(s) == LegacyBeginPass(s, s.l.run + 1)

\* legacy lines 356-358: the handler logs a warning and leaves the loop
on_verify_error(s) == Ready(s)

\* legacy lines 351-367: verify_csv has returned a new text, returned its
\* input, or raised
PipeVerified ==
    /\ UNCHANGED <<gvars, cvars, vvars, xvars, dvars, uvars, yvars>>
    /\ loc.pc = "verify_csv"
    /\ \E r \in {"new", "same", "raise"} :
         LET ret == IF r = "new" THEN <<Csv(0, loc.run + 1)>> ELSE loc.file2
         IN  Becomes(
               IF r = "raise"
               THEN on_verify_error(
                        [Cur EXCEPT !.h.warned = Append(@, loc.run)])
               ELSE LegacyBeginPass(
                        [Cur EXCEPT !.a.verified_csv = ret, !.l.file2 = ret,
                                    !.a.card_rows = parse_cards_to_rows(ret)],
                        loc.run + 1))

\* The waiting tasks take the free slots in the order they were created,
\* before the event loop resumes _pipeline or a backend call.  The tasks
\* are followed while _pipeline awaits them; what a task does after
\* _pipeline has raised reaches no variable of the run.
TaskStart(c) ==
    /\ UNCHANGED <<gvars, cvars, vvars, xvars, dvars, uvars, yvars>>
    /\ loc.pc \in {"extract", "generate", "verify"}
    /\ Startable
    /\ c \in Pending /\ \A e \in Pending : c <= e
    /\ Becomes(StartOne(Cur, c))

\* lines 99-101, 147-150, 203-204: the backend call of the task returned
TaskReturns(c) ==
    /\ UNCHANGED <<gvars, cvars, vvars, xvars, dvars, uvars, yvars>>
    /\ loc.pc \in {"extract", "generate", "verify"}
    /\ ~Startable
    /\ tasks.u[c].st = "running"
    /\ LET t == tasks.u[c]
       IN  \E r \in ExtractResults, same \in BOOLEAN :
              /\ loc.pc = "extract" => ~same
              /\ loc.pc # "extract" => r = <<>>
              /\ loc.pc = "generate" => ~same
              /\ LET ret == IF same THEN t.input ELSE Csv(c, loc.run + 1)
                 IN  Becomes(TaskDone(Cur, c,
                        CASE loc.pc = "extract" ->
                                [t EXCEPT !.how = "ok", !.facts = r]
                          [] loc.pc = "generate" ->
                                [t EXCEPT !.how = "ok", !.csv = Csv(c, 0)]
                          [] loc.pc = "verify" ->
                                [t EXCEPT !.how = "ok", !.ret = ret,
                                          !.csv = ret]))

\* lines 102-104, 151-153, 205-207: the backend call of the task raised
TaskFails(c) ==
    /\ UNCHANGED <<gvars, cvars, vvars, xvars, dvars, uvars, yvars>>
    /\ loc.pc \in {"extract", "generate", "verify"}
    /\ ~Startable
    /\ tasks.u[c].st = "running"
    /\ LET t == tasks.u[c]
       IN  Becomes(TaskDone(Cur, c,
              [t EXCEPT !.how = "failed",
                        !.csv = IF loc.pc = "verify"
                                THEN verify_fallback(t.input) ELSE NoCsv]))

\* ui/builders.py line 631 (on_click: app.cancel_event.set()): the Cancel
\* button, while a run is in progress
Cancel ==
    /\ UNCHANGED <<gvars, cvars, vvars, xvars, dvars, uvars, yvars, loc, tasks>>
    /\ loc.pc \notin {"idle", "finished"}
    /\ ~app.cancel_event
    /\ app' = [app EXCEPT !.cancel_event = TRUE]
    /\ hist' = [hist EXCEPT !.cancel_stage = StageNo(app.progress_label)]

NextPipe ==
    \/ PipeStart
    \/ PipeFileRead
    \/ PipeChunked
    \/ PipeCollectExtract
    \/ PipeDeduped
    \/ PipeCollectGenerate
    \/ PipeCollectVerify
    \/ PipeGenerated
    \/ PipeVerified
    \/ \E c \in 1..MaxChunks : TaskStart(c)
    \/ \E c \in 1..MaxChunks : TaskReturns(c)
    \/ \E c \in 1..MaxChunks : TaskFails(c)
    \/ Cancel

SpecPipe == InitPipe /\ [][NextPipe]_vars

(***************************************************************************)
(* Claims about the Orchestrator, checked under SpecPipe.                  *)
(***************************************************************************)

\* C2: once the cancellation flag is set during a run, the run never
\* reports ready-for-export and starts no later stage: it gets at most to
\* the label of the stage after the one it was cancelled in, where the
\* flag is polled.
C2_CancelStopsRun ==
    app.cancel_event =>
        /\ hist.outcome # "ready"
        /\ app.progress_label # "ready"
        /\ StageNo(app.progress_label) <= hist.cancel_stage + 1

\* the flag was set during the verify stage and the run reported ready
C2_Witness ==
    /\ app.cancel_event /\ hist.cancel_stage = 6
    /\ hist.outcome = "ready" /\ app.progress_label = "ready"

\* C4: in the per-chunk pipeline a run that got its chunks and was not
\* cancelled ends ready-for-export, whatever backend calls failed, and
\* every chunk that got a generated CSV has a CSV at the end.
C4_FailureIsIsolated ==
    (loc.pc = "finished" /\ app.new_pipeline /\ ~app.cancel_event
        /\ loc.nchunks > 0)
      => /\ hist.outcome = "ready"
         /\ Keys(loc.generated_dict) \subseteq Keys(loc.current_csv_per_chunk)

\* generate_csv failed for one chunk, another chunk had its CSV, nobody
\* cancelled, and the run ended in the fatal-error outcome
C4_Witness ==
    /\ loc.pc = "finished" /\ app.new_pipeline /\ ~app.cancel_event
    /\ hist.outcome = "fatal"
    /\ Len(loc.active_chunks) = 2 /\ Len(loc.generated_dict) = 1

\* C5: from the second verification pass on, the text handed to the
\* verifier is the text the verifier returned in the pass before: for the
\* whole deck in the legacy pipeline, for the same chunk in the per-chunk
\* pipeline.
C5_NextPassVerifiesLastOutput ==
    /\ (loc.pc = "verify_csv" /\ loc.run >= 1)
          => loc.file2 = app.verified_csv
    /\ (loc.pc = "verify" /\ loc.run >= 1)
          => \A c \in 1..MaxChunks :
                (/\ tasks.u[c].st \in {"running", "done"}
                 /\ tasks.u[c].how # "KeyError"
                 /\ hist.last_pass.how[c] = "ok")
                   => tasks.u[c].input = hist.last_pass.ret[c]

\* the legacy pipeline is in its second pass, the first pass returned a new
\* text, and the verifier was handed the generated CSV
C5_Witness ==
    /\ loc.pc = "verify_csv" /\ loc.run = 1
    /\ app.verified_csv = <<Csv(0, 1)>>
    /\ loc.file2 = app.generated_csv

\* C6: after every verification pass of the per-chunk pipeline the chunks
\* holding a CSV are those that held one before the pass; a chunk whose
\* verify call succeeded holds the verifier's text, a chunk whose call
\* failed or whose task saw the cancellation flag holds its pre-pass CSV.
C6_FallbackKeepsChunk ==
    hist.last_pass.run >= 0 =>
        LET lp   == hist.last_pass
            post == loc.current_csv_per_chunk
        IN  /\ Keys(post) = Keys(lp.pre)
            /\ \A c \in Keys(lp.pre) :
                  /\ Get(post, c) # NoCsv
                  /\ lp.how[c] \in {"ok", "failed", "cancel"}
                  /\ lp.how[c] = "ok" => Get(post, c) = lp.ret[c]
                  /\ lp.how[c] # "ok" => Get(post, c) = Get(lp.pre, c)

\* a pass ended in which one chunk's verify call failed and another chunk's
\* call returned a new text
C6_Witness ==
    /\ hist.last_pass.run >= 0
    /\ \E c, e \in Keys(hist.last_pass.pre) :
          /\ hist.last_pass.how[c] = "failed"
          /\ Get(loc.current_csv_per_chunk, c) = Get(hist.last_pass.pre, c)
          /\ hist.last_pass.how[e] = "ok"
          /\ hist.last_pass.ret[e] # Get(hist.last_pass.pre, e)

\* C14: once the dedupe stage of a run has reported its count, in either
\* pipeline mode, the run's fact list has no two facts with the same
\* case-folded trimmed fact text.
C14_RunFactsUnique ==
    (StageNo(app.progress_label) >= 4 /\ app.progress_label # "dedupe")
      => \A i, j \in 1..Len(app.all_facts) :
            i # j => fact_key(app.all_facts[i]) # fact_key(app.all_facts[j])

\* the per-chunk pipeline kept two facts with the same text and different
\* topics
C14_Witness ==
    /\ app.new_pipeline /\ StageNo(app.progress_label) >= 5
    /\ Len(app.all_facts) = 2
    /\ app.all_facts[1].fact = app.all_facts[2].fact
    /\ app.all_facts[1].topic # app.all_facts[2].topic

\* C16: in every fan-out stage the number of units that hold the gate and
\* await the backend never exceeds max_workers, which is at most 8 and at
\* most the number of CPUs when that is known.
C16_GateBoundsInFlight ==
    /\ Cardinality(Running) <= loc.max_workers
    /\ loc.max_workers \in 1..8
    /\ \E n \in CpuCounts :
          /\ loc.max_workers = max_workers(n)
          /\ n # None => loc.max_workers <= n

\* one unit of a verification pass holds the only slot of the gate and
\* another waits for it
C16_Witness ==
    /\ loc.pc = "verify" /\ loc.max_workers = 1
    /\ Cardinality(Running) = 1 /\ Pending # {}

\* C17: the stages of a run are strictly ordered.  The units of a stage or
\* of a verification pass are created only when every unit created before
\* is done and has been awaited by the loop (the last of them in this very
\* step); synthesis starts only from the extraction stage with the dedupe
\* results in place, verification only from synthesis, and in the legacy
\* pipeline dedupe follows extraction, generate_csv follows dedupe and
\* verify_csv follows generate_csv or the verify_csv call before it.
C17_StageOrder ==
    [][/\ (\E c \in 1..MaxChunks :
              tasks'.u[c].st = "pending" /\ tasks.u[c].st # "pending")
          => /\ \A e \in 1..MaxChunks : tasks.u[e].st \in {"-", "done"}
             /\ Len(tasks.q) <= 1
       /\ (loc'.pc = "generate" /\ loc.pc # "generate")
          => /\ loc.pc = "extract"
             /\ app'.all_facts =
                   [i \in 1..Len(loc'.facts_unique) |-> loc'.facts_unique[i][2]]
             /\ loc'.active_chunks = sorted(Keys(loc'.facts_unique))
       /\ (loc'.pc = "verify" /\ loc.pc # "verify") => loc.pc = "generate"
       /\ (loc'.pc = "verify" /\ loc'.run > loc.run)
          => /\ loc.pc = "verify" /\ loc'.run = loc.run + 1
             /\ \A e \in 1..MaxChunks : tasks.u[e].st \in {"-", "done"}
       /\ (loc'.pc = "dedupe" /\ loc.pc # "dedupe")
          => /\ loc.pc = "extract"
             /\ \A e \in 1..MaxChunks : tasks.u[e].st \in {"-", "done"}
       /\ (loc'.pc = "generate_csv" /\ loc.pc # "generate_csv")
          => loc.pc = "dedupe"
       /\ (loc'.pc = "verify_csv" /\ loc.pc # "verify_csv")
          => loc.pc = "generate_csv"
       /\ (loc'.pc = "verify_csv" /\ loc'.run > loc.run)
          => loc.pc = "verify_csv" /\ loc'.run = loc.run + 1
      ]_vars

\* a unit of the second verification pass is awaiting the backend
C17_Witness ==
    /\ loc.pc = "verify" /\ loc.run = 1 /\ Running # {}
    /\ hist.last_pass.run = 0

\* C18: the progress values a run sets, through _set_stage and while it
\* reads the files, never decrease and all lie between 0 and 1 (here in
\* 1/10000); the progress shown while the run is under way is the last of
\* them.
C18_ProgressMonotone ==
    LET r == hist.reported
    IN  /\ \A i \in 1..Len(r) : r[i] \in 0..10000
        /\ \A i \in 1..(Len(r) - 1) : r[i] <= r[i + 1]
        /\ (r # <<>> /\ loc.pc # "finished") => app.progress = r[Len(r)]

\* C18 witness: a run of the per-chunk pipeline over files, with several
\* chunks and two verification passes, is ready; it went through the
\* file-reading updates and the per-unit updates of every stage and of
\* both passes
C18_Witness ==
    LET r == hist.reported
        Between(lo, hi) == \E i \in 1..Len(r) : lo < r[i] /\ r[i] < hi
    IN  /\ hist.outcome = "ready" /\ app.new_pipeline
        /\ app.selected_files >= 1 /\ loc.nchunks >= 2
        /\ Len(loc.active_chunks) >= 2 /\ loc.run = 1
        /\ Between(200, 1201) /\ Between(2200, 5000) /\ Between(6100, 7000)
        /\ Between(7500, 8300) /\ Between(8300, 9100)
        /\ r[Len(r)] = 10000

\* C19: a run whose _pipeline raised the cancellation signal ends in the
\* cancelled outcome, never in the fatal one, and only a run whose flag was
\* set ends so; whatever the outcome of _start_pipeline (ready, cancelled,
\* one of the early returns, fatal), the progress indicator is reset when
\* it ends.
C19_CancelledNotFatal ==
    /\ hist.raised = "CancelledError"
       => loc.pc = "finished" /\ hist.outcome = "cancelled"
    /\ hist.outcome = "cancelled"
       => hist.raised = "CancelledError" /\ app.cancel_event
    /\ hist.outcome = "fatal" => hist.raised \notin {"-", "CancelledError"}
    /\ loc.pc = "finished"
       => /\ hist.outcome \in {"ready", "cancelled", "fatal", "no_input",
                               "no_key", "no_text", "gen_failed"}
          /\ app.progress = None

\* C19 witness: the flag was set during the second verification pass and
\* the loop raised the signal
C19_Witness ==
    /\ hist.raised = "CancelledError" /\ hist.outcome = "cancelled"
    /\ loc.run = 1 /\ hist.cancel_stage = StageNo("verify")
    /\ app.progress = None /\ hist.reported # <<>>

\* line 45 or line 48 holds when the run starts
PreconditionFails ==
    (app.selected_files = 0 /\ ~loc.pasted_text) \/ ~client

\* C20: a run started with no file and a blank pasted text, or on a backend
\* without client, ends at once, before any stage: it has set no stage
\* label and no progress value, has created no unit of work (so no Gateway
\* call is made), has emitted one notification, an error, and the facts,
\* the generated CSV, the verified CSV and the card rows are those of
\* before the run.
C20_PreconditionFailures ==
    [][(loc.pc = "idle" /\ loc'.pc # "idle" /\ PreconditionFails)
       => /\ loc'.pc = "finished"
          /\ hist'.outcome \in {"no_input", "no_key"}
          /\ hist'.raised = "-"
          /\ hist'.reported = <<>> /\ app'.progress_label = ""
          /\ tasks' = NoTasks
          /\ hist'.snacks = <<"err">>
          /\ app'.all_facts = app.all_facts
          /\ app'.generated_csv = app.generated_csv
          /\ app'.verified_csv = app.verified_csv
          /\ app'.card_rows = app.card_rows
      ]_vars

\* C20 witness: files are selected but the backend has no client; the run
\* has ended with one error notification and the results of the run before
C20_Witness ==
    /\ hist.outcome = "no_key" /\ ~client /\ app.selected_files > 0
    /\ hist.snacks = <<"err">> /\ hist.reported = <<>>
    /\ app.all_facts # <<>> /\ app.generated_csv # <<>>
    /\ app.verified_csv # <<>> /\ app.card_rows # <<>>


(***************************************************************************)
(* The reconciliation audit on its own: verify_csv from line 232 on, for   *)
(* decks that have been parsed.  The rows: a card; the same card with      *)
(* another Answer and Details; the card with a question mark, with another *)
(* topic, with no topic, with another question; the card with a seventh    *)
(* field.                                                                  *)
(***************************************************************************)
MaxAuditRows == 2

AuditCards ==
    { <<"T", "S", "Q1",  "A1", "", "">>,
      <<"T", "S", "Q1",  "A2", "", "d">>,
      <<"T", "S", "Q1?", "A1", "", "">>,
      <<"U", "S", "Q1",  "A1", "", "">>,
      <<"",  "S", "Q1",  "A1", "", "">>,
      <<"T", "S", "Q2",  "A1", "", "">>,
      <<"T", "S", "Q1",  "A1", "", "", "x">> }

AuditDecks == UNION {[1..n -> AuditCards] : n \in 0..MaxAuditRows}

InitAudit ==
    /\ IdleLater
    /\ IdleCards
    /\ IdleGen
    /\ IdleChunk
    /\ IdlePipe
    /\ IdleExtract
    /\ IdleDedupe
    /\ vpc = "audit"
    /\ original_cards \in AuditDecks
    /\ verified_cards \in AuditDecks
    /\ csv_text = OkText(<<Header>> \o original_cards)
    /\ verified_csv = OkText(<<Header>> \o verified_cards)
    /\ audit = NoAudit
    /\ v_out = [k |-> "-"]

NextAudit == VerifyAudit

SpecAudit == InitAudit /\ [][NextAudit]_vars

\* the field at position i of a row, None when the row has no such field
FieldAt(row, i) == IF i <= Len(row) THEN row[i] ELSE None

\* those of Answer, Source, Details in which two rows differ
Differing(o, v) ==
    {Header[i] : i \in {j \in 4..6 : FieldAt(o, j) # FieldAt(v, j)}}

\* the entries of the audit for the pair with key k
ExactEntries(k) ==
    {j \in 1..Len(audit.rewritten_cards) :
        card_key(audit.rewritten_cards[j].original) = k}

\* the keys the original and the verified deck share
SharedKeys ==
    {card_key(original_cards[i]) : i \in 1..Len(original_cards)}
        \cap {card_key(verified_cards[i]) : i \in 1..Len(verified_cards)}

\* C21: when the audit has logged, every key of both decks has one
\* rewritten entry (exact, score 100) listing exactly those of Answer,
\* Source, Details that differ if any of them differs, and no entry
\* otherwise, the pair being counted as unchanged.
C21_ExactClassification ==
    audit.k = "logged" =>
        LET od == DictOf(original_cards)
            vd == DictOf(verified_cards)
            Same == {k \in SharedKeys :
                        Differing(Lookup(od, k), Lookup(vd, k)) = {}}
        IN  /\ \A k \in SharedKeys \ Same :
                  /\ Cardinality(ExactEntries(k)) = 1
                  /\ \A j \in ExactEntries(k) :
                        LET e == audit.rewritten_cards[j]
                        IN  /\ e.original = Lookup(od, k)
                            /\ e.verified = Lookup(vd, k)
                            /\ e.score = 1000
                            /\ e.changed = Differing(e.original, e.verified)
            /\ \A k \in Same : ExactEntries(k) = {}
            /\ audit.unchanged_count = Cardinality(Same)

\* C21 witness: two rows with the same key and the same Answer, Source and
\* Details, the verified one with a seventh field: the pair is logged as
\* rewritten, with no changed field, and not counted as unchanged
C21_Witness ==
    /\ audit.k = "logged" /\ audit.unchanged_count = 0
    /\ Len(original_cards) = 1 /\ Len(verified_cards) = 1
    /\ Len(original_cards[1]) = 6 /\ Len(verified_cards[1]) = 7
    /\ SubSeq(verified_cards[1], 1, 6) = original_cards[1]
    /\ Len(audit.rewritten_cards) = 1
    /\ audit.rewritten_cards[1].changed = {}


\* the rows of a deck whose key the other deck does not hold, in the order
\* of the deck's dict
UnpairedOf(cards) ==
    LET Unpaired(row) == card_key(row) \notin SharedKeys
    IN  SelectSeq(DictOf(cards), Unpaired)

\* the position of a row in a list of rows with distinct keys
PosIn(rows, row) == CHOOSE j \in 1..Len(rows) : rows[j] = row

\* C29: the fuzzy-rewritten pairs are a one-to-one partial matching of the
\* unpaired original rows with the unpaired verified rows, listed in the
\* order of the original rows: no verified row is in two pairs, none of
\* them is logged as added, and no original row is in two pairs or both in
\* a pair and removed.
C29_FuzzyOneToOne ==
    audit.k = "logged" =>
        LET F  == audit.fuzzy_rewritten
            uo == UnpairedOf(original_cards)
            uv == UnpairedOf(verified_cards)
            InSeq(rows, row) == \E j \in 1..Len(rows) : rows[j] = row
        IN  /\ \A a \in 1..Len(F) :
                  /\ InSeq(uo, F[a].original) /\ InSeq(uv, F[a].verified)
                  /\ ~InSeq(audit.added_cards, F[a].verified)
                  /\ ~InSeq(audit.removed_cards, F[a].original)
            /\ \A a, b \in 1..Len(F) :
                  a < b => /\ F[a].verified # F[b].verified
                           /\ PosIn(uo, F[a].original) < PosIn(uo, F[b].original)

\* C29 witness: two unpaired original rows have the same verified row as
\* their only candidate, both with a score of 80 or more; the first has
\* claimed it and the second is removed
C29_Witness ==
    /\ audit.k = "logged"
    /\ Len(UnpairedOf(original_cards)) = 2
    /\ Len(UnpairedOf(verified_cards)) = 1
    /\ Len(audit.fuzzy_rewritten) = 1 /\ Len(audit.removed_cards) = 1
    /\ audit.fuzzy_rewritten[1].original = UnpairedOf(original_cards)[1]
    /\ overall_sim(audit.removed_cards[1],
                   audit.fuzzy_rewritten[1].verified) >= 800
    /\ audit.added_cards = <<>>

\* the unpaired verified rows the original rows before position i claimed
ClaimedBefore(i) ==
    LET F  == audit.fuzzy_rewritten
        uo == UnpairedOf(original_cards)
    IN  {F[a].verified : a \in {b \in 1..Len(F) :
                                   PosIn(uo, F[b].original) < i}}

\* the candidate of the original row at position i: of the verified rows
\* not yet claimed the one with the highest score, the earliest such; 0 when
\* there is none
Candidate(i) ==
    LET uo == UnpairedOf(original_cards)
        uv == UnpairedOf(verified_cards)
        free == {j \in 1..Len(uv) : uv[j] \notin ClaimedBefore(i)}
        Best(j) == \A m \in free :
                      \/ overall_sim(uo[i], uv[j]) > overall_sim(uo[i], uv[m])
                      \/ /\ overall_sim(uo[i], uv[j]) = overall_sim(uo[i], uv[m])
                         /\ j <= m
    IN  IF free = {} THEN 0 ELSE CHOOSE j \in free : Best(j)

\* C30: every unpaired original row is fuzzy-rewritten with its candidate
\* when the candidate's score is 80 or more (800 here) and removed
\* otherwise, also when it has no candidate; the unpaired verified rows no
\* original row claimed are the added ones.
C30_GreedyBestMatch ==
    audit.k = "logged" =>
        LET F  == audit.fuzzy_rewritten
            uo == UnpairedOf(original_cards)
            uv == UnpairedOf(verified_cards)
            InSeq(rows, row) == \E j \in 1..Len(rows) : rows[j] = row
            Claimed(row) == \E a \in 1..Len(F) : F[a].verified = row
            Free(row) == ~Claimed(row)
            Matches(i) ==
                /\ Candidate(i) # 0
                /\ overall_sim(uo[i], uv[Candidate(i)]) >= 800
        IN  /\ \A i \in 1..Len(uo) :
                  IF Matches(i)
                  THEN /\ \E a \in 1..Len(F) :
                             /\ F[a].original = uo[i]
                             /\ F[a].verified = uv[Candidate(i)]
                             /\ F[a].score =
                                    overall_sim(uo[i], uv[Candidate(i)])
                       /\ ~InSeq(audit.removed_cards, uo[i])
                  ELSE /\ InSeq(audit.removed_cards, uo[i])
                       /\ \A a \in 1..Len(F) : F[a].original # uo[i]
            /\ Len(F) + Len(audit.removed_cards) = Len(uo)
            /\ audit.added_cards = SelectSeq(uv, Free)

\* C30 witness: the first original row took the second verified row, which
\* scores higher than the first; the second original row took the first
\* verified row at a score of exactly 80
C30_Witness ==
    LET F  == audit.fuzzy_rewritten
        uo == UnpairedOf(original_cards)
        uv == UnpairedOf(verified_cards)
    IN  /\ audit.k = "logged" /\ Len(uo) = 2 /\ Len(uv) = 2 /\ Len(F) = 2
        /\ F[1].original = uo[1] /\ F[1].verified = uv[2]
        /\ overall_sim(uo[1], uv[1]) >= 800
        /\ overall_sim(uo[1], uv[2]) > overall_sim(uo[1], uv[1])
        /\ F[2].original = uo[2] /\ F[2].verified = uv[1]
        /\ F[2].score = 800
        /\ audit.added_cards = <<>> /\ audit.removed_cards = <<>>


(***************************************************************************)
(* The loop of extract_facts that builds the Facts (backend.py 166-183),   *)
(* on data that is a parsed array.  An element is a dict, a list or a str; *)
(* a dict maps each of the four keys to a JSON value or to no value.       *)
(***************************************************************************)
MaxElems == 2

JStr(s) == [t |-> "str", v |-> s]

JNone == [t |-> "None", v |-> <<>>]

JInt == [t |-> "int", v |-> <<"1">>]

Missing == [t |-> "missing", v |-> <<>>]

FactKeys == {"topic", "subtopic", "fact", "source"}

JDict(tp, sb, fc, sr) ==
    [kind |-> "dict",
     m    |-> [k \in FactKeys |->
                  CASE k = "topic" -> tp
                    [] k = "subtopic" -> sb
                    [] k = "fact" -> fc
                    [] k = "source" -> sr]]

\* an element that is not a dict has no members
NotDict(kind) == [kind |-> kind, m |-> [k \in FactKeys |-> Missing]]

\* the elements the parsed arrays are made of
Elems ==
    {JDict(tp, sb, fc, sr) :
        tp \in {Missing, JNone, JStr(<<"_", "a", "_">>)},
        sb \in {JNone, JStr(<<"_", "s">>)},
        fc \in {Missing, JInt, JStr(<<"b", "n">>)},
        sr \in {Missing, JInt}}
    \cup {NotDict("list"), NotDict("str")}

ParsedArrays == UNION {[1..n -> Elems] : n \in 0..MaxElems}

\* dict.get(key, default); dict.get(key) has the default None
dict_get(f, key, default) ==
    IF f.m[key] = Missing THEN default ELSE f.m[key]

\* lines 171 and 173: the object the strip() is called on
stripped_value(f, key) == dict_get(f, key, JStr(<<>>))

\* lines 170-176 raise: a list or a str has no get(), and None or an int
\* has no strip()
entry_raises(f) ==
    \/ f.kind # "dict"
    \/ stripped_value(f, "topic").t # "str"
    \/ stripped_value(f, "fact").t # "str"

\* lines 170-176: the Fact built of a dict
new_fact(f) ==
    [topic    |-> strip(stripped_value(f, "topic").v),
     subtopic |-> dict_get(f, "subtopic", JNone),
     fact     |-> strip(stripped_value(f, "fact").v),
     source   |-> dict_get(f, "source", JNone)]

\* a variant of the handler that drops the Facts built so far
on_invalid_reset(built) == <<>>

\* lines 178-180: the handler logs and goes on with the next element
on_invalid(built) == built

RECURSIVE build_facts(_, _)
\* lines 167-183
build_facts(d, built) ==
    IF d = <<>>
    THEN built
    ELSE build_facts(Tail(d),
                     IF entry_raises(Head(d))
                     THEN on_invalid(built)
                     ELSE Append(built, new_fact(Head(d))))

InitFacts ==
    /\ IdleLater
    /\ IdleGen
    /\ IdleChunk
    /\ IdleVerify
    /\ IdlePipe
    /\ IdleDedupe
    /\ IdleCards
    /\ xpc = "parsed"
    /\ parsed \in ParsedArrays
    /\ x_out = [k |-> "-"]

\* lines 166-183, data is a non-empty array
ExtractBuild ==
    /\ UNCHANGED <<gvars, cvars, vvars, pvars, dvars, uvars, yvars>>
    /\ UNCHANGED parsed
    /\ xpc = "parsed"
    /\ xpc' = "built"
    /\ x_out' = [k |-> "return", facts |-> build_facts(parsed, <<>>)]

NextFacts == ExtractBuild

SpecFacts == InitFacts /\ [][NextFacts]_vars

WellFormed(f) ==
    /\ f.kind = "dict"
    /\ f.m["topic"].t \in {"missing", "str"}
    /\ f.m["fact"].t \in {"missing", "str"}

Trimmed(v) == IF v = Missing THEN <<>> ELSE strip(v.v)

PassedThrough(v) == IF v = Missing THEN JNone ELSE v

\* C28: a malformed element of the parsed array (not an object, or with a
\* topic or a fact that is not a string) is skipped and the others are kept:
\* the list returned holds, in array order, one Fact for each well-formed
\* element, with topic and fact trimmed, a missing topic or fact being the
\* empty string, and subtopic and source as they are in the element (None
\* when missing).
C28_MalformedElementSkipped ==
    xpc = "built" =>
        LET good == SelectSeq(parsed, WellFormed)
        IN  /\ x_out.k = "return"
            /\ Len(x_out.facts) = Len(good)
            /\ \A i \in 1..Len(good) :
                  /\ x_out.facts[i].topic = Trimmed(good[i].m["topic"])
                  /\ x_out.facts[i].fact = Trimmed(good[i].m["fact"])
                  /\ x_out.facts[i].subtopic =
                        PassedThrough(good[i].m["subtopic"])
                  /\ x_out.facts[i].source = PassedThrough(good[i].m["source"])

\* C28 witness: a well-formed element with a topic to trim, a missing fact
\* and an untrimmed subtopic, followed by an element whose topic is null;
\* one Fact is returned.
C28_Witness ==
    /\ xpc = "built"
    /\ Len(parsed) = 2
    /\ WellFormed(parsed[1]) /\ parsed[1].m["fact"] = Missing
    /\ parsed[2].kind = "dict" /\ parsed[2].m["topic"] = JNone
    /\ x_out.facts =
          <<[topic |-> <<"a">>, subtopic |-> JStr(<<"_", "s">>),
             fact |-> <<>>, source |-> JNone]>>


(***************************************************************************)
(* The editable deck of the preview and its export: ui/preview.py          *)
(* (_parse_cards_to_rows, the delete and edit handlers) and ui/export.py   *)
(* (_rows_to_csv_text, _save_split_by_topic).                              *)
(*                                                                         *)
(* Here a text is a sequence of characters, each written as itself: "\""   *)
(* is the double quote, "," the comma, "\n" and "\r" the line feed and the *)
(* carriage return, " " the space.  A word of several letters, such as     *)
(* "Topic", stands for a run of ordinary characters.  A field is a text, a *)
(* row a sequence of fields.  Python indexes start at 0: card_rows[i] of   *)
(* the code is card_rows[i + 1] here.                                      *)
(***************************************************************************)
MaxCards == 2

quotechar == "\""

delimiter == ","

\* the mark the reader processes at the end of each line
EOL == "EOL"

\* preview.py 17, export.py 17
header ==
    <<<<"Topic">>, <<"Subtopic">>, <<"Question">>, <<"Answer">>,
      <<"Source">>, <<"Details">>>>

RECURSIVE FlatSpan(_, _, _)
\* the concatenation of the texts lo..hi of ts
FlatSpan(ts, lo, hi) ==
    IF lo > hi THEN <<>>
    ELSE IF lo = hi THEN ts[lo]
    ELSE LET mid == (lo + hi) \div 2
         IN  FlatSpan(ts, lo, mid) \o FlatSpan(ts, mid + 1, hi)

\* the concatenation of a sequence of texts
Flat(ts) == FlatSpan(ts, 1, Len(ts))

(***************************************************************************)
(* csv.reader(io.StringIO(text)) with the default dialect: the text is cut *)
(* after each "\n" into lines; the reader processes the characters of a    *)
(* line and then the end-of-line mark, and a record ends when the mark     *)
(* leaves it outside a quoted field.                                       *)
(***************************************************************************)
IsNl(c) == c \in {"\n", "\r"}

StartRecord == [st |-> "START_RECORD", field |-> <<>>, fields |-> <<>>,
                err |-> FALSE]

save_field(s, st) ==
    [s EXCEPT !.fields = Append(@, s.field), !.field = <<>>, !.st = st]

add_char(s, c, st) == [s EXCEPT !.field = Append(@, c), !.st = st]

end_of_field(s, c) ==
    save_field(s, IF c = EOL THEN "START_RECORD" ELSE "EAT_CRNL")

start_field(s, c) ==
    CASE c = EOL \/ IsNl(c) -> end_of_field(s, c)
      [] c = quotechar      -> [s EXCEPT !.st = "IN_QUOTED_FIELD"]
      [] c = delimiter      -> save_field(s, "START_FIELD")
      [] OTHER              -> add_char(s, c, "IN_FIELD")

parse_process_char(s, c) ==
    CASE s.st = "START_RECORD" ->
             IF c = EOL THEN s
             ELSE IF IsNl(c) THEN [s EXCEPT !.st = "EAT_CRNL"]
             ELSE start_field(s, c)
      [] s.st = "START_FIELD" -> start_field(s, c)
      [] s.st = "IN_FIELD" ->
             CASE c = EOL \/ IsNl(c) -> end_of_field(s, c)
               [] c = delimiter      -> save_field(s, "START_FIELD")
               [] OTHER              -> add_char(s, c, "IN_FIELD")
      [] s.st = "IN_QUOTED_FIELD" ->
             CASE c = EOL       -> s
               [] c = quotechar -> [s EXCEPT !.st = "QUOTE_IN_QUOTED_FIELD"]
               [] OTHER         -> add_char(s, c, "IN_QUOTED_FIELD")
      [] s.st = "QUOTE_IN_QUOTED_FIELD" ->
             CASE c = quotechar      -> add_char(s, c, "IN_QUOTED_FIELD")
               [] c = delimiter      -> save_field(s, "START_FIELD")
               [] c = EOL \/ IsNl(c) -> end_of_field(s, c)
               [] OTHER              -> add_char(s, c, "IN_FIELD")
      [] s.st = "EAT_CRNL" ->
             CASE c = EOL -> [s EXCEPT !.st = "START_RECORD"]
               [] IsNl(c) -> s
               [] OTHER   -> [s EXCEPT !.err = TRUE]

\* the reader before the first character: no record read, no error
StartRead == [s |-> StartRecord, rows |-> <<>>, err |-> FALSE]

\* one character c of the text; the end-of-line mark follows a "\n" and the
\* last character of the text, and ends the record unless it is inside a
\* quoted field
read_char(r, c, is_last) ==
    LET s1 == parse_process_char(r.s, c)
        s2 == parse_process_char(s1, EOL)
    IN  CASE r.err -> r
          [] ~r.err /\ s1.err -> [r EXCEPT !.err = TRUE]
          [] ~r.err /\ ~s1.err /\ (c = "\n" \/ is_last) ->
                 IF s2.st = "START_RECORD"
                 THEN [r EXCEPT !.s = StartRecord,
                                !.rows = Append(@, s2.fields)]
                 ELSE [r EXCEPT !.s = s2]
          [] OTHER -> [r EXCEPT !.s = s1]

RECURSIVE read_span(_, _, _, _)
\* the characters lo..hi of txt, read in order from the reader state r;
\* nothing is read after an error
read_span(txt, lo, hi, r) ==
    IF lo > hi THEN r
    ELSE IF lo = hi THEN read_char(r, txt[lo], lo = Len(txt))
    ELSE LET mid  == (lo + hi) \div 2
             left == read_span(txt, lo, mid, r)
         IN  IF left.err THEN left ELSE read_span(txt, mid + 1, hi, left)

\* list(csv.reader(io.StringIO(txt))): the rows, or err when csv.Error is
\* raised; a quoted field open at the end of the text ends there
csv_reader(txt) ==
    LET end == read_span(txt, 1, Len(txt), StartRead)
    IN  [err  |-> end.err,
         rows |-> CASE end.err -> <<>>
                    [] ~end.err /\ end.s.st = "IN_QUOTED_FIELD" ->
                           Append(end.rows, Append(end.s.fields, end.s.field))
                    [] OTHER -> end.rows]

(***************************************************************************)
(* csv.writer(out, quoting=csv.QUOTE_ALL) with the default dialect.        *)
(***************************************************************************)
\* a variant that writes the quotes of a field as they are
doubled_plain(f) == f

\* doublequote: each quote character of a field is written twice
doubled(f) ==
    Flat([i \in 1..Len(f) |->
             IF f[i] = quotechar THEN <<quotechar, quotechar>> ELSE <<f[i]>>])

quoted(f) == <<quotechar>> \o doubled(f) \o <<quotechar>>

RECURSIVE join_fields(_)
join_fields(r) ==
    IF r = <<>> THEN <<>>
    ELSE IF Len(r) = 1 THEN quoted(r[1])
    ELSE quoted(r[1]) \o <<delimiter>> \o join_fields(Tail(r))

\* writer.writerow(r); the line terminator is "\r\n"
writerow(r) == join_fields(r) \o <<"\r", "\n">>

\* writer.writerows(rs)
writerows(rs) == Flat([i \in 1..Len(rs) |-> writerow(rs[i])])

\* a variant that pads and does not truncate
padded_whole(r) == r \o [i \in 1..(6 - Len(r)) |-> <<>>]

\* preview.py 20, export.py 20: (r + [""] * 6)[:6]
padded(r) == SubSeq(r \o [i \in 1..6 |-> <<>>], 1, 6)

\* preview.py 10-22: the value assigned to app.card_rows
normalized(txt) ==
    LET got  == csv_reader(txt)
        rows == IF got.err \/ got.rows = <<>> THEN <<header>> ELSE got.rows
    IN  <<header>> \o [i \in 1..(Len(rows) - 1) |-> padded(rows[i + 1])]

\* export.py 11-21
rows_to_csv_text(rows) ==
    IF rows = <<>> THEN <<>>
    ELSE writerow(header)
         \o writerows([i \in 1..(Len(rows) - 1) |-> padded(rows[i + 1])])

(***************************************************************************)
(* The deck under _parse_cards_to_rows (called by the pipeline with the    *)
(* generated and the verified text), the delete handler of a preview row   *)
(* and the edit dialog.  The handlers hold the row index they were made    *)
(* with; the pipeline may replace the deck while a dialog is open.         *)
(***************************************************************************)
HeaderLine ==
    <<"Topic", ",", "Subtopic", ",", "Question", ",", "Answer", ",",
      "Source", ",", "Details", "\n">>

\* the first line of a text: the header line, or a row (which is lost)
FirstLines == {HeaderLine, <<"a", ",", "b", "\n">>}

\* the lines that follow: a row of two fields, of six, of seven, a row with
\* a quoted field that holds a comma, a doubled quote and a line feed, an
\* empty line, and a line with a carriage return inside (csv.Error)
CsvLines ==
    {<<"a", ",", "b", "\n">>,
     <<"T", ",", "S", ",", "Q", ",", "A", ",", "R", ",", "D", "\n">>,
     <<"T", ",", "S", ",", "Q", ",", "A", ",", "R", ",", "D", ",", "x", "\n">>,
     <<"\"", "a", ",", "\"", "\"", "\n", "\"", ",", "b", "\r", "\n">>,
     <<"\n">>,
     <<"a", "\r", "b", "\n">>}

CsvTexts ==
    {<<>>} \cup {first \o Flat(ls) : first \in FirstLines,
                     ls \in UNION {[1..n -> CsvLines] : n \in 0..MaxCards}}

\* what the six text fields of the dialog hold when it is saved
Edits == {[i \in 1..6 |-> <<"e">>],
          <<<<"T">>, <<>>, <<"Q", "\n", "\"">>, <<",">>, <<>>, <<" ">>>>}

RowIndexes == 0..(MaxCards + 1)

Op(k, idx, arg) == [k |-> k, idx |-> idx, arg |-> arg]

InitCards ==
    /\ IdleLater
    /\ IdleGen
    /\ IdleChunk
    /\ IdleVerify
    /\ IdlePipe
    /\ IdleExtract
    /\ IdleDedupe
    /\ upc = "cards"
    /\ card_rows = <<>>
    /\ dialog = 0
    /\ last_op = NoOp
    /\ exported = <<>>
    /\ files = <<>>

\* preview.py 10-22
CardsParse ==
    /\ UNCHANGED <<gvars, cvars, vvars, pvars, xvars, dvars, yvars>>
    /\ UNCHANGED <<upc, dialog, exported, files>>
    /\ upc = "cards"
    /\ \E txt \in CsvTexts :
          /\ card_rows' = normalized(txt)
          /\ last_op' = Op("parse", 0, txt)

\* preview.py 38-44 guard
deletable(row_index, rows) == 0 < row_index /\ row_index < Len(rows)

\* del rows[row_index]
del(rows, row_index) ==
    SubSeq(rows, 1, row_index) \o SubSeq(rows, row_index + 2, Len(rows))

\* preview.py 38-44: the delete handler made for row_index
CardsDelete ==
    /\ UNCHANGED <<gvars, cvars, vvars, pvars, xvars, dvars, yvars>>
    /\ UNCHANGED <<upc, dialog, exported, files>>
    /\ upc = "cards"
    /\ dialog = 0
    /\ \E row_index \in RowIndexes :
          IF deletable(row_index, card_rows)
          THEN /\ card_rows' = del(card_rows, row_index)
               /\ last_op' = Op("delete", row_index, <<>>)
          ELSE /\ card_rows' = card_rows
               /\ last_op' = Op("none", row_index, <<>>)

\* preview.py 65-67 and 96-97: the edit handler made for row_index opens
\* the dialog, which is modal
CardsOpenEdit ==
    /\ UNCHANGED <<gvars, cvars, vvars, pvars, xvars, dvars, yvars>>
    /\ UNCHANGED <<upc, card_rows, exported, files>>
    /\ upc = "cards"
    /\ dialog = 0
    /\ \E row_index \in RowIndexes :
          IF deletable(row_index, card_rows)
          THEN /\ dialog' = row_index
               /\ last_op' = Op("open", row_index, <<>>)
          ELSE /\ dialog' = 0
               /\ last_op' = Op("none", row_index, <<>>)

\* preview.py 77-82: on_save; the assignment raises IndexError when the
\* deck has been replaced by a shorter one, and the dialog stays open
CardsSave ==
    /\ UNCHANGED <<gvars, cvars, vvars, pvars, xvars, dvars, yvars>>
    /\ UNCHANGED <<upc, exported, files>>
    /\ upc = "cards"
    /\ dialog # 0
    /\ \E values \in Edits :
          IF dialog < Len(card_rows)
          THEN /\ card_rows' = [card_rows EXCEPT ![dialog + 1] = values]
               /\ dialog' = 0
               /\ last_op' = Op("save", dialog, <<>>)
          ELSE /\ card_rows' = card_rows
               /\ dialog' = dialog
               /\ last_op' = Op("none", dialog, <<>>)

\* preview.py 84-86: on_cancel
CardsCancel ==
    /\ UNCHANGED <<gvars, cvars, vvars, pvars, xvars, dvars, yvars>>
    /\ UNCHANGED <<upc, card_rows, exported, files>>
    /\ upc = "cards"
    /\ dialog # 0
    /\ dialog' = 0
    /\ last_op' = Op("cancel", dialog, <<>>)

NextCards ==
    CardsParse \/ CardsDelete \/ CardsOpenEdit \/ CardsSave \/ CardsCancel

SpecCards == InitCards /\ [][NextCards]_vars

\* what the rows read from a text are
ReadRows(txt) == IF csv_reader(txt).err THEN <<>> ELSE csv_reader(txt).rows

\* C22: once _parse_cards_to_rows has run, and after any sequence of
\* parses, edits and deletions, the first row of card_rows is the fixed
\* header and every row has exactly six fields; a parse gives one row for
\* each row of the text after the first, padded with empty strings or cut
\* to six fields; no deletion and no edit is made at the header's index.
C22_HeaderAndSixFields ==
    /\ card_rows # <<>> =>
          /\ card_rows[1] =
                <<<<"Topic">>, <<"Subtopic">>, <<"Question">>, <<"Answer">>,
                  <<"Source">>, <<"Details">>>>
          /\ \A i \in 1..Len(card_rows) : Len(card_rows[i]) = 6
    /\ last_op.k \in {"delete", "save", "open"} => last_op.idx > 0
    /\ last_op.k = "parse" =>
          LET rows == ReadRows(last_op.arg)
          IN  /\ Len(card_rows) = IF rows = <<>> THEN 1 ELSE Len(rows)
              /\ \A i \in 2..Len(card_rows) : \A j \in 1..6 :
                    card_rows[i][j] =
                        IF j <= Len(rows[i]) THEN rows[i][j] ELSE <<>>

\* C22 witness: a text with a row of two fields and a row of seven was
\* parsed, then the first data row was edited and the second deleted.
C22_Witness ==
    /\ last_op = Op("delete", 2, <<>>)
    /\ Len(card_rows) = 2
    /\ card_rows[2] \in Edits


(***************************************************************************)
(* The export of a deck: _rows_to_csv_text builds the text, which          *)
(* _parse_cards_to_rows reads back (SpecRound) and _save_split_by_topic    *)
(* splits into one file per topic (SpecSplit).                             *)
(***************************************************************************)
\* export.py 11-21 (called at line 25): the text of the deck
RowsToText ==
    /\ UNCHANGED <<gvars, cvars, vvars, pvars, xvars, dvars, yvars>>
    /\ UNCHANGED <<card_rows, dialog, files>>
    /\ upc = "rows"
    /\ upc' = "text"
    /\ exported' = rows_to_csv_text(card_rows)
    /\ last_op' = Op("export", 0, card_rows)

\* preview.py 10-22 on the text built
TextToRows ==
    /\ UNCHANGED <<gvars, cvars, vvars, pvars, xvars, dvars, yvars>>
    /\ UNCHANGED <<dialog, last_op, exported, files>>
    /\ upc = "text"
    /\ upc' = "done"
    /\ card_rows' = normalized(exported)

\* the values of a field: empty, He said "hi", one with a comma, one with a
\* line feed, a lone double quote
FieldValues ==
    {<<>>,
     <<"He", " ", "said", " ", "\"", "hi", "\"">>,
     <<"a", ",", "b">>,
     <<"a", "\n", "b">>,
     <<"\"">>}

\* a card with the given Topic and Answer
Card(topic, answer) == <<topic, <<"S">>, <<"Q">>, answer, <<>>, <<" ">>>>

RoundCards == {Card(t, a) : t \in FieldValues, a \in FieldValues}

\* the decks: the header and up to MaxCards cards
RoundDecks ==
    {<<header>> \o d : d \in UNION {[1..n -> RoundCards] : n \in 0..MaxCards}}

InitRound ==
    /\ IdleLater
    /\ IdleGen
    /\ IdleChunk
    /\ IdleVerify
    /\ IdlePipe
    /\ IdleExtract
    /\ IdleDedupe
    /\ upc = "rows"
    /\ card_rows \in RoundDecks
    /\ dialog = 0
    /\ last_op = NoOp
    /\ exported = <<>>
    /\ files = <<>>

NextRound == RowsToText \/ TextToRows

SpecRound == InitRound /\ [][NextRound]_vars

\* C24: the rows read back from the text built of a deck are the rows of
\* the deck: every field value is as it was, whether it holds double quotes,
\* a comma or a line feed.
C24_ExportRoundTrip ==
    upc = "done" =>
        /\ Len(card_rows) = Len(last_op.arg)
        /\ \A i \in 1..Len(card_rows) : \A j \in 1..6 :
              card_rows[i][j] = last_op.arg[i][j]

\* C24 witness: a deck of two cards was written and read back, the first
\* with the Answer He said "hi" (written with its quotes doubled), the
\* second with a line feed in the Topic and a comma in the Answer.
C24_Witness ==
    /\ upc = "done"
    /\ Len(card_rows) = 3
    /\ card_rows[2][4] = <<"He", " ", "said", " ", "\"", "hi", "\"">>
    /\ card_rows[3][1] = <<"a", "\n", "b">>
    /\ card_rows[3][4] = <<"a", ",", "b">>
    /\ \E i \in 1..(Len(exported) - 5) :
          SubSeq(exported, i, i + 5) = <<"\"", "\"", "hi", "\"", "\"", "\"">>

(***************************************************************************)
(* _save_split_by_topic, export.py 77-94.  A file is known by the          *)
(* sanitized name it is opened with (the folder and the suffix .anki.csv   *)
(* are the same for all); opening a name again replaces its content.       *)
(***************************************************************************)
Untitled == <<"U", "n", "t", "i", "t", "l", "e", "d">>

IsSpace(c) == c \in {" ", "\n", "\r"}

RECURSIVE str_lstrip(_)
str_lstrip(s) ==
    IF s # <<>> /\ IsSpace(Head(s)) THEN str_lstrip(Tail(s)) ELSE s

RECURSIVE str_rstrip(_)
str_rstrip(s) ==
    IF s # <<>> /\ IsSpace(s[Len(s)])
    THEN str_rstrip(SubSeq(s, 1, Len(s) - 1))
    ELSE s

\* str.strip() on a sequence of characters
str_strip(s) == str_rstrip(str_lstrip(s))

\* line 85
topic_of(r) ==
    LET t == str_strip(IF Len(r) > 0 THEN r[1] ELSE Untitled)
    IN  IF t = <<>> THEN Untitled ELSE t

\* the characters [\w\- ] of line 88: every character but the punctuation
\* and the line ends
Kept(c) == c \notin {"+", "#", "/", ":", ",", "\"", "\n", "\r"}

\* re.sub(r"[^\w\- ]+", "_", s): each run of other characters becomes one
\* underscore, written in place of the first character of the run
sub_unsafe(s) ==
    Flat([i \in 1..Len(s) |->
             IF Kept(s[i]) THEN <<s[i]>>
             ELSE IF i = 1 \/ Kept(s[i - 1]) THEN <<"_">>
             ELSE <<>>])

\* str.replace(" ", "_")
spaces_replaced(s) == [i \in 1..Len(s) |-> IF s[i] = " " THEN "_" ELSE s[i]]

\* line 88
safe(topic) ==
    LET sub  == sub_unsafe(topic)
        cut  == SubSeq(sub, 1, IF Len(sub) < 60 THEN Len(sub) ELSE 60)
        name == spaces_replaced(str_strip(cut))
    IN  IF name = <<>> THEN Untitled ELSE name

RECURSIVE by_topic(_, _)
\* lines 83-86: the topics in the order of their first row, each with its
\* rows
by_topic(data, groups) ==
    IF data = <<>> THEN groups
    ELSE LET row == Head(data)
             key == topic_of(row)
         IN  by_topic(Tail(data),
                IF \E i \in 1..Len(groups) : groups[i].topic = key
                THEN [i \in 1..Len(groups) |->
                         IF groups[i].topic = key
                         THEN [groups[i] EXCEPT !.items = Append(@, row)]
                         ELSE groups[i]]
                ELSE Append(groups, [topic |-> key, items |-> <<row>>]))

\* open(out, "w") and the writes of lines 90-93
written(fs, name, content) ==
    IF \E i \in 1..Len(fs) : fs[i].name = name
    THEN [i \in 1..Len(fs) |->
             IF fs[i].name = name
             THEN [fs[i] EXCEPT !.content = content]
             ELSE fs[i]]
    ELSE Append(fs, [name |-> name, content |-> content])

RECURSIVE write_topics(_, _, _)
\* lines 87-94
write_topics(groups, head_row, fs) ==
    IF groups = <<>> THEN fs
    ELSE write_topics(Tail(groups), head_row,
                      written(fs, safe(Head(groups).topic),
                              writerow(head_row)
                                  \o writerows(Head(groups).items)))

\* lines 77-94
save_split_by_topic(txt) ==
    LET rows == csv_reader(txt).rows
    IN  IF rows = <<>> THEN <<>>
        ELSE write_topics(by_topic(Tail(rows), <<>>), rows[1], <<>>)

\* the Topic values: blank, one to trim, its trimmed form, C++ and C#, and a
\* topic of 61 characters
TopicValues ==
    {<<>>, <<" ", "a">>, <<"a">>, <<"C", "+", "+">>, <<"C", "#">>,
     [i \in 1..61 |-> "a"]}

SplitCards ==
    {<<t, <<"S">>, q, <<"A">>, <<>>, <<>>>> :
        t \in TopicValues, q \in {<<"Q1">>, <<"Q2">>}}

SplitDecks ==
    {<<header>> \o d : d \in UNION {[1..n -> SplitCards] : n \in 0..MaxCards}}

InitSplit ==
    /\ IdleLater
    /\ IdleGen
    /\ IdleChunk
    /\ IdleVerify
    /\ IdlePipe
    /\ IdleExtract
    /\ IdleDedupe
    /\ upc = "rows"
    /\ card_rows \in SplitDecks
    /\ dialog = 0
    /\ last_op = NoOp
    /\ exported = <<>>
    /\ files = <<>>

\* export.py 71-73: the split of the text exported
SplitByTopic ==
    /\ UNCHANGED <<gvars, cvars, vvars, pvars, xvars, dvars, yvars>>
    /\ UNCHANGED <<card_rows, dialog, last_op, exported>>
    /\ upc = "text"
    /\ upc' = "split"
    /\ files' = save_split_by_topic(exported)

NextSplit == RowsToText \/ SplitByTopic

SpecSplit == InitSplit /\ [][NextSplit]_vars

\* the Topic of a row, trimmed, blank being Untitled
TopicValue(r) == IF str_strip(r[1]) = <<>> THEN Untitled ELSE str_strip(r[1])

\* the data rows of the deck exported
DataRows == Tail(card_rows)

\* the data rows a file holds
FileRows(f) == Tail(ReadRows(f.content))

\* C23: after an export with the per-topic split there are as many
\* per-topic files as distinct Topic values (trimmed, blank being Untitled),
\* every data row of the deck is in exactly one of them, each file starts
\* with the deck header, and each sanitized name has at most 60 characters.
C23_OneFilePerTopic ==
    upc = "split" =>
        /\ Len(files) =
              Cardinality({TopicValue(DataRows[i]) : i \in 1..Len(DataRows)})
        /\ \A i, j \in 1..Len(files) : files[i].name = files[j].name => i = j
        /\ \A i \in 1..Len(DataRows) :
              Cardinality({k \in 1..Len(files) :
                              \E n \in 1..Len(FileRows(files[k])) :
                                  FileRows(files[k])[n] = DataRows[i]}) = 1
        /\ \A k \in 1..Len(files) :
              /\ ReadRows(files[k].content) # <<>>
              /\ ReadRows(files[k].content)[1] = card_rows[1]
              /\ Len(files[k].name) <= 60

\* C23 witness: a deck with a card of topic C++ and a card of topic C# was
\* exported with the split; one file, named C_, was written.
C23_Witness ==
    /\ upc = "split"
    /\ Len(card_rows) = 3
    /\ card_rows[2][1] = <<"C", "+", "+">>
    /\ card_rows[3][1] = <<"C", "#">>
    /\ Len(files) = 1
    /\ files[1].name = <<"C", "_">>


\* C32: when _gen has exhausted its retries, the error it raises carries the
\* error of the last failed attempt, which is attempt max_retries, and the
\* prompt _gen was called with.
C32_TerminalErrorCarriesLast ==
    (gpc = "raised" /\ gen_out.why = "GenAI error") =>
        /\ gen_out.err # NoErr
        /\ gen_out.err.attempt = nfail - 1
        /\ gen_out.err.attempt = attempt - 1
        /\ nfail = calls
        /\ gen_out.prompt = prompt

\* C32 witness: every attempt failed, with errors of two kinds among them,
\* and the terminal error was raised for the prompt p2.
C32_Witness ==
    /\ gpc = "raised"
    /\ gen_out.why = "GenAI error"
    /\ Cardinality(kinds) = 2
    /\ gen_out.err.attempt = nfail - 1
    /\ prompt = "p2"


\* the distinct 3-field keys of the rows of a deck that have three fields or
\* more
KeysOf(cards) ==
    {SubSeq(cards[i], 1, 3) : i \in {j \in 1..Len(cards) : Len(cards[j]) >= 3}}

\* the keys of a list of rows, and of the originals and the verifieds of a
\* list of pairs
RowKeys(rows) == {SubSeq(rows[i], 1, 3) : i \in 1..Len(rows)}

OriginalKeys(pairs) == {SubSeq(pairs[i].original, 1, 3) : i \in 1..Len(pairs)}

VerifiedKeys(pairs) == {SubSeq(pairs[i].verified, 1, 3) : i \in 1..Len(pairs)}

\* C33: when the audit has logged, the distinct keys of the original deck
\* are as many as unchanged + exact-rewritten + fuzzy-rewritten + removed,
\* those of the verified deck as many as unchanged + exact-rewritten +
\* fuzzy-rewritten + added; the categories hold each key once and no key
\* twice, and hold no row of fewer than three fields.
C33_CountsConserved ==
    audit.k = "logged" =>
        LET E  == audit.rewritten_cards
            F  == audit.fuzzy_rewritten
            R  == audit.removed_cards
            A  == audit.added_cards
            OK == KeysOf(original_cards)
            VK == KeysOf(verified_cards)
        IN  /\ Cardinality(OK) =
                  audit.unchanged_count + Len(E) + Len(F) + Len(R)
            /\ Cardinality(VK) =
                  audit.unchanged_count + Len(E) + Len(F) + Len(A)
            /\ \A i \in 1..Len(E) : Len(E[i].original) >= 3 /\ Len(E[i].verified) >= 3
            /\ \A i \in 1..Len(F) : Len(F[i].original) >= 3 /\ Len(F[i].verified) >= 3
            /\ \A i \in 1..Len(R) : Len(R[i]) >= 3
            /\ \A i \in 1..Len(A) : Len(A[i]) >= 3
            /\ Cardinality(OriginalKeys(E)) = Len(E)
            /\ Cardinality(OriginalKeys(F)) = Len(F)
            /\ Cardinality(VerifiedKeys(F)) = Len(F)
            /\ Cardinality(RowKeys(R)) = Len(R)
            /\ Cardinality(RowKeys(A)) = Len(A)
            /\ OriginalKeys(E) \cup OriginalKeys(F) \cup RowKeys(R) \subseteq OK
            /\ VerifiedKeys(E) \cup VerifiedKeys(F) \cup RowKeys(A) \subseteq VK
            /\ OriginalKeys(E) \cap OriginalKeys(F) = {}
            /\ OriginalKeys(E) \cap RowKeys(R) = {}
            /\ OriginalKeys(F) \cap RowKeys(R) = {}
            /\ VerifiedKeys(E) \cap VerifiedKeys(F) = {}
            /\ VerifiedKeys(E) \cap RowKeys(A) = {}
            /\ VerifiedKeys(F) \cap RowKeys(A) = {}

\* C33 witness: the original deck holds a row of two fields and a card, the
\* verified deck the card with a question mark and a card with another
\* question: one fuzzy rewrite and one addition are logged, nothing else.
C33_Witness ==
    /\ audit.k = "logged"
    /\ Len(original_cards) = 2 /\ Len(original_cards[1]) = 2
    /\ Len(verified_cards) = 2
    /\ Len(audit.fuzzy_rewritten) = 1 /\ Len(audit.added_cards) = 1
    /\ audit.removed_cards = <<>> /\ audit.rewritten_cards = <<>>
    /\ audit.unchanged_count = 0


\* the trimmed, case-folded text of a fact; the empty text when the fact has
\* none
FoldedText(f) ==
    IF f.fact \in {NoFactKey, "", " "} THEN ""
    ELSE IF f.fact \in {"f1", " F1 "} THEN "f1"
    ELSE f.fact

FoldedTexts(fs) == {FoldedText(fs[i]) : i \in 1..Len(fs)}

\* C38: deduplicate_facts drops every fact whose trimmed text is empty or
\* missing and keeps exactly one fact for every other trimmed, case-folded
\* text of the input.
C38_DedupeKeySet ==
    dpc = "done" =>
        /\ FoldedTexts(uniq) = FoldedTexts(facts) \ {""}
        /\ Len(uniq) = Cardinality(FoldedTexts(facts) \ {""})
        /\ \A i \in 1..Len(uniq) : \E j \in 1..Len(facts) : uniq[i] = facts[j]

\* C38 witness: a fact with no "fact" key, a fact of white space and the
\* fact " F1 " were given; the third alone is returned.
C38_Witness ==
    /\ dpc = "done"
    /\ Len(facts) = 3
    /\ facts[1].fact = NoFactKey /\ facts[2].fact = " " /\ facts[3].fact = " F1 "
    /\ uniq = <<facts[3]>>


(***************************************************************************)
(* split_long_tokens step by step (utils.py 46-55): the test of the while  *)
(* loop and one pass through its body are steps of their own.  A token is  *)
(* known by its position in the list.                                      *)
(***************************************************************************)
MaxWinTokens == 5

MaxWin == 3

\* tokens[i: i + win] for win >= 0, i counting from 0
slice(toks, i, win) ==
    SubSeq(toks, i + 1, IF i + win < Len(toks) THEN i + win ELSE Len(toks))

\* a variant that advances by win - ovlp whatever it is
stride_unguarded(win, ovlp) == win - ovlp

\* line 49: max(1, win - ovlp)
stride_of(win, ovlp) == IF win - ovlp > 1 THEN win - ovlp ELSE 1

InitWindows ==
    /\ IdleGen
    /\ IdleChunk
    /\ IdleVerify
    /\ IdlePipe
    /\ IdleExtract
    /\ IdleDedupe
    /\ IdleCards
    /\ IdleCollect
    /\ IdleRuns
    /\ slt \in {[pc |-> "call", tokens |-> [k \in 1..n |-> k], win |-> w,
                 ovlp |-> o, stride |-> 0, i |-> 0, parts |-> <<>>,
                 passes |-> 0] :
                   n \in 0..MaxWinTokens, w \in 0..MaxWin,
                   o \in (0 - MaxWin)..(MaxWin + 1)}

\* lines 47-49
SltEnter ==
    /\ UNCHANGED <<gvars, cvars, vvars, pvars, xvars, dvars, uvars, ovars,
                   rvars>>
    /\ slt.pc = "call"
    /\ slt' = IF slt.tokens = <<>>
              THEN [slt EXCEPT !.pc = "returned"]
              ELSE [slt EXCEPT !.pc = "while",
                               !.stride = stride_of(slt.win, slt.ovlp)]

\* line 50: while i < len(tokens)
SltTest ==
    /\ UNCHANGED <<gvars, cvars, vvars, pvars, xvars, dvars, uvars, ovars,
                   rvars>>
    /\ slt.pc = "while"
    /\ slt' = [slt EXCEPT !.pc = IF slt.i < Len(slt.tokens) THEN "body"
                                 ELSE "returned"]

\* lines 51-54: a pass through the body
SltBody ==
    /\ UNCHANGED <<gvars, cvars, vvars, pvars, xvars, dvars, uvars, ovars,
                   rvars>>
    /\ slt.pc = "body"
    /\ slt.passes <= MaxWinTokens
    /\ LET s1 == [slt EXCEPT !.parts = Append(@, slice(slt.tokens, slt.i,
                                                       slt.win)),
                             !.passes = @ + 1]
       IN  slt' = IF slt.i + slt.win >= Len(slt.tokens)
                  THEN [s1 EXCEPT !.pc = "returned"]
                  ELSE [s1 EXCEPT !.pc = "while", !.i = @ + slt.stride]

NextWindows == SltEnter \/ SltTest \/ SltBody

SpecWindows == InitWindows /\ [][NextWindows]_vars

\* the code runs on: a step that can be taken is taken
SpecWindowsLive == SpecWindows /\ WF_vars(NextWindows)

\* the last window ends at the last token
EndsAtLast(s) ==
    /\ s.parts # <<>>
    /\ s.parts[Len(s.parts)] # <<>>
    /\ s.parts[Len(s.parts)][Len(s.parts[Len(s.parts)])]
          = s.tokens[Len(s.tokens)]

\* C39: split_long_tokens returns for every token list, every window size
\* of 0 or more and every overlap, the stride being 1 or more; it returns
\* no window for an empty list, and otherwise its last window ends at the
\* last token.
C39_WindowsTerminate ==
    /\ <>(slt.pc = "returned")
    /\ [](slt.pc \in {"while", "body"} => slt.stride >= 1)
    /\ [](slt.pc = "returned" =>
             IF slt.tokens = <<>> THEN slt.parts = <<>> ELSE EndsAtLast(slt))

\* C39 witness: the call with one token and a window size of 0 has
\* returned one window, which is empty.
C39_Witness ==
    /\ slt.pc = "returned"
    /\ Len(slt.tokens) = 1 /\ slt.win = 0 /\ slt.ovlp = 0
    /\ slt.parts = <<<<>>>>


\* the number of passes the double-verification flag asks for
PassesAsked == IF app.double_check THEN 2 ELSE 1

\* C31: a run makes 2 verification passes when the double-verification flag
\* is set and 1 otherwise.  In the per-chunk pipeline every pass that ends
\* without the cancellation flag has made one verify call for each chunk
\* that had cards before it and none for another chunk; in the legacy
\* pipeline a pass that fails is the last one, and the cards are those of
\* the last step that succeeded.
C31_VerificationPasses ==
    /\ loc.pc \in {"verify", "verify_csv"} =>
          app.verification_runs = PassesAsked /\ loc.run < PassesAsked
    /\ (app.new_pipeline /\ hist.outcome = "ready") =>
          hist.last_pass.run + 1 = PassesAsked
    /\ (app.new_pipeline /\ hist.last_pass.run >= 0 /\ ~app.cancel_event) =>
          \A c \in 1..MaxChunks :
             IF c \in Keys(hist.last_pass.pre)
             THEN hist.last_pass.how[c] \in {"ok", "failed"}
             ELSE hist.last_pass.how[c] = "-"
    /\ (~app.new_pipeline /\ hist.outcome = "ready") =>
          IF hist.warned = <<>>
          THEN /\ loc.run + 1 = PassesAsked
               /\ app.card_rows = <<"header">> \o app.verified_csv
          ELSE /\ hist.warned = <<loc.run>>
               /\ app.card_rows =
                     <<"header">> \o IF loc.run = 0 THEN app.generated_csv
                                     ELSE app.verified_csv

\* C31 witness: a legacy run with the flag set whose first pass returned a
\* new text and whose second pass failed has ended ready with the cards of
\* the first pass.
C31_Witness ==
    /\ ~app.new_pipeline /\ app.double_check /\ hist.outcome = "ready"
    /\ hist.warned = <<1>>
    /\ app.verified_csv = <<Csv(0, 1)>>
    /\ app.card_rows = <<"header", Csv(0, 1)>>


(***************************************************************************)
(* The extraction fan-in (pipeline.py 106-125 and 302-321): the units'     *)
(* results are fixed, the loop over as_completed takes them in the order   *)
(* the units complete, and the dedupe stage follows.                       *)
(***************************************************************************)
MaxUnits == 3

\* the facts the units return: one text in two spellings and under two
\* topics, another text, and an empty text
UnitFacts ==
    {Fact("A", "f1"), Fact("A", " F1 "), Fact("B", "f1"), Fact("A", "f2"),
     Fact("A", "")}

\* what a unit returns: no fact, one fact, or the same fact twice
UnitResults ==
    {<<>>, <<Fact("A", "f1"), Fact("A", "f1")>>}
        \cup {<<f>> : f \in UnitFacts}

InitCollect ==
    /\ IdleGen
    /\ IdleChunk
    /\ IdleVerify
    /\ IdlePipe
    /\ IdleExtract
    /\ IdleDedupe
    /\ IdleCards
    /\ IdleWindows
    /\ IdleRuns
    /\ collect \in {[pc |-> "loop", new_pipeline |-> np, results |-> rs,
                     waiting |-> 1..n, facts_all |-> <<>>,
                     all_facts |-> <<>>] :
                       np \in BOOLEAN,
                       rs \in UNION {[1..n -> UnitResults] : n \in 1..MaxUnits},
                       n \in 1..MaxUnits}
    /\ collect.waiting = DOMAIN collect.results

\* lines 108-112 (304-308): res = await coro; facts_all.extend(res), the
\* unit c being the next to complete
CollectOne(c) ==
    /\ UNCHANGED <<gvars, cvars, vvars, pvars, xvars, dvars, uvars, wvars,
                   rvars>>
    /\ collect.pc = "loop"
    /\ c \in collect.waiting
    /\ LET res == collect.results[c]
       IN  collect' =
              [collect EXCEPT
                 !.facts_all = @ \o IF collect.new_pipeline
                                    THEN [k \in 1..Len(res) |-> <<c, res[k]>>]
                                    ELSE res,
                 !.waiting = @ \ {c},
                 !.pc = IF collect.waiting = {c} THEN "dedupe" ELSE "loop"]

\* lines 116-125 (313-321): the dedupe stage
CollectDedupe ==
    /\ UNCHANGED <<gvars, cvars, vvars, pvars, xvars, dvars, uvars, wvars,
                   rvars>>
    /\ collect.pc = "dedupe"
    /\ LET fa == collect.facts_all
           fu == DedupeUpTo(fa, Len(fa))
       IN  collect' =
              [collect EXCEPT
                 !.pc = "done",
                 !.all_facts = IF collect.new_pipeline
                               THEN [k \in 1..Len(fu) |-> fu[k][2]]
                               ELSE deduplicate_facts(fa, Len(fa))]

NextCollect == (\E c \in 1..MaxUnits : CollectOne(c)) \/ CollectDedupe

SpecCollect == InitCollect /\ [][NextCollect]_vars

\* the facts the units returned, whatever the order
Returned ==
    UNION {{collect.results[c][k] : k \in 1..Len(collect.results[c])} :
              c \in DOMAIN collect.results}

\* C37: the number of unique facts after the dedupe stage and the set of
\* their case-folded trimmed texts are given by the units' results alone,
\* so they are the same for every order in which the units complete: in
\* the per-chunk pipeline the facts are the distinct facts returned, in the
\* legacy pipeline there is one fact for each non-empty case-folded trimmed
\* text returned.
C37_OrderIndependent ==
    collect.pc = "done" =>
        LET texts == {FoldedText(f) : f \in Returned}
        IN  IF collect.new_pipeline
            THEN /\ Len(collect.all_facts) = Cardinality(Returned)
                 /\ FoldedTexts(collect.all_facts) = texts
            ELSE /\ Len(collect.all_facts) = Cardinality(texts \ {""})
                 /\ FoldedTexts(collect.all_facts) = texts \ {""}

\* C37 witness: three units returned the same text under two topics and in
\* two spellings; the third unit completed first and the first last, and
\* the legacy pipeline kept the one fact of the third unit.
C37_Witness ==
    /\ collect.pc = "done" /\ ~collect.new_pipeline
    /\ collect.results =
          <<(<<Fact("A", "f1")>>), (<<Fact("B", "f1")>>),
            (<<Fact("A", " F1 ")>>)>>
    /\ collect.facts_all =
          <<Fact("A", " F1 "), Fact("B", "f1"), Fact("A", "f1")>>
    /\ collect.all_facts = <<Fact("A", " F1 ")>>


(***************************************************************************)
(* Several runs on one app object (ui/pipeline.py, per-chunk pipeline).    *)
(* The run button starts _start_pipeline as a new task whether or not a    *)
(* run is in progress (ui/builders.py 616-619); the cancel button sets     *)
(* the event app.cancel_event holds at that moment (line 631).  Every run  *)
(* has its own locals, tasks and semaphore, and all runs read and write    *)
(* the fields of app.  An event is known by the number of the run whose    *)
(* start created it, 0 being the event of App.__init__; a CSV text by the  *)
(* run and the call that wrote it.  The tasks of a run that has ended go   *)
(* on: nothing cancels them.                                               *)
(***************************************************************************)
MaxRuns == 2

RunChunks == 2

RunCsv(r, n) == [run |-> r, by |-> n]

NoUnit == [st |-> "-", how |-> "-"]

NoUnits == [c \in 1..RunChunks |-> NoUnit]

\* the fields of app before the first run (ui/app.py 37-58)
NewShared(cpu, dc) ==
    [event |-> 0, is_set |-> {}, cpu_count |-> cpu,
     double_check |-> dc, all_facts |-> 0,
     generated_csv |-> <<>>, verified_csv |-> <<>>, card_rows |-> <<>>]

\* late_call: a unit has taken the gate and called the backend after a
\* cancellation of the run; at_ready: the fields of app when the run
\* reported ready
NewRun(w, passes) ==
    [pc |-> "chunk", outcome |-> "-", max_workers |-> w,
     verification_runs |-> passes, units |-> NoUnits, q |-> <<>>,
     done |-> 0, n |-> 0, active |-> {}, has_csv |-> {}, pass |-> 0,
     cancelled |-> FALSE, late_call |-> FALSE, at_ready |-> <<>>]

\* several runs are followed on a machine with one CPU, where the semaphore
\* has one slot, and with the double-verification flag off
InitRuns ==
    /\ IdleGen
    /\ IdleChunk
    /\ IdleVerify
    /\ IdlePipe
    /\ IdleExtract
    /\ IdleDedupe
    /\ IdleCards
    /\ IdleWindows
    /\ IdleCollect
    /\ shared = NewShared(1, FALSE)
    /\ runs = <<>>

World == [sh |-> shared, rs |-> runs]

Turns(s) ==
    /\ shared' = s.sh
    /\ runs' = s.rs

\* app.cancel_event.is_set(), on the event app holds now
is_set(s) == s.sh.event \in s.sh.is_set

\* _pipeline returns or raises, and _start_pipeline ends (lines 25-34)
RunEnds(s, r, outcome) ==
    [s EXCEPT !.rs[r].pc = "finished", !.rs[r].outcome = outcome]

\* the top of an as_completed iteration (lines 109, 159, 213) and line 185
RunPolls(s, r, pc) ==
    IF is_set(s) THEN RunEnds(s, r, "cancelled")
    ELSE [s EXCEPT !.rs[r].pc = pc]

\* tasks = [...one(c) for c in ids], each waiting for the semaphore
RunFansOut(s, r, ids) ==
    [s EXCEPT !.rs[r].units =
                  [c \in 1..RunChunks |->
                      IF c \in ids THEN [st |-> "pending", how |-> "-"]
                      ELSE NoUnit],
              !.rs[r].q = <<>>, !.rs[r].done = 0,
              !.rs[r].n = Cardinality(ids)]

\* lines 239-246
RunReady(s, r) ==
    [RunEnds(s, r, "ready") EXCEPT
        !.rs[r].at_ready =
            [all_facts |-> s.sh.all_facts,
             generated_csv |-> s.sh.generated_csv,
             verified_csv |-> s.sh.verified_csv,
             card_rows |-> s.sh.card_rows]]

\* lines 193-237: a verification pass begins, and ends
RECURSIVE RunBeginPass(_, _, _)
RECURSIVE RunEndPass(_, _)
RunBeginPass(s, r, k) ==
    IF k >= s.rs[r].verification_runs THEN RunReady(s, r)
    ELSE LET s1 == RunFansOut([s EXCEPT !.rs[r].pass = k], r, s.rs[r].active)
         IN  IF s.rs[r].active = {} THEN RunEndPass(s1, r)
             ELSE RunPolls(s1, r, "verify")

RunEndPass(s, r) ==
    LET k   == s.rs[r].pass
        txt == IF s.rs[r].active = {} THEN <<>> ELSE <<RunCsv(r, k + 1)>>
    IN  RunBeginPass([s EXCEPT !.sh.verified_csv = txt,
                               !.sh.card_rows = parse_cards_to_rows(txt)],
                     r, k + 1)

\* lines 167-192
RunAfterGenerate(s, r) ==
    LET txt == IF s.rs[r].has_csv = {} THEN <<>> ELSE <<RunCsv(r, 0)>>
        s1  == [s EXCEPT !.sh.generated_csv = txt,
                         !.sh.card_rows = parse_cards_to_rows(txt)]
    IN  IF is_set(s) THEN RunEnds(s1, r, "cancelled")
        ELSE RunBeginPass(s1, r, 0)

\* lines 116-160: the chunks that gave facts are the active chunks
RunAfterExtract(s, r) ==
    LET act == {c \in 1..RunChunks : s.rs[r].units[c].how = "ok"}
        s1  == RunFansOut([s EXCEPT !.sh.all_facts = r,
                                    !.rs[r].active = act,
                                    !.rs[r].has_csv = {}],
                          r, act)
    IN  IF act = {} THEN RunAfterGenerate(s1, r)
        ELSE RunPolls(s1, r, "generate")

\* lines 16-24 and 44-50: the run button; the preconditions hold or not
RunStart ==
    /\ UNCHANGED <<gvars, cvars, vvars, pvars, xvars, dvars, uvars, wvars,
                   ovars>>
    /\ Len(runs) < MaxRuns
    /\ \E ok \in BOOLEAN :
         LET r  == Len(runs) + 1
             s1 == [World EXCEPT
                      !.sh.event = r,
                      !.rs = Append(@, NewRun(max_workers(shared.cpu_count),
                                              verification_runs(
                                                  shared.double_check)))]
         IN  Turns(IF ok THEN s1 ELSE RunEnds(s1, r, "aborted"))

\* ui/builders.py 631: the cancel button, while a run is in progress
RunCancel ==
    /\ UNCHANGED <<gvars, cvars, vvars, pvars, xvars, dvars, uvars, wvars,
                   ovars>>
    /\ \E r \in 1..Len(runs) : runs[r].pc # "finished"
    /\ shared.event \notin shared.is_set
    /\ shared' = [shared EXCEPT !.is_set = @ \cup {shared.event}]
    /\ runs' = [r \in 1..Len(runs) |->
                   IF runs[r].pc # "finished"
                   THEN [runs[r] EXCEPT !.cancelled = TRUE]
                   ELSE runs[r]]

\* lines 83-110: chunk_text has returned
RunChunked(r) ==
    /\ UNCHANGED <<gvars, cvars, vvars, pvars, xvars, dvars, uvars, wvars,
                   ovars>>
    /\ r \in 1..Len(runs)
    /\ runs[r].pc = "chunk"
    /\ Turns(RunPolls(RunFansOut(World, r, 1..RunChunks), r, "extract"))

RunRunning(r) == {c \in 1..RunChunks : runs[r].units[c].st = "running"}

RunPending(r) == {c \in 1..RunChunks : runs[r].units[c].st = "pending"}

\* a variant of the gate with one slot less
gate_free_less(running, slots) == running < slots - 1

\* asyncio.Semaphore(max_workers): a slot is free
gate_free(running, slots) == running < slots

RunStartable(r) ==
    /\ RunPending(r) # {}
    /\ gate_free(Cardinality(RunRunning(r)), runs[r].max_workers)

\* the unit is done: it has left `async with semaphore`
UnitDone(s, r, c, how) ==
    [s EXCEPT !.rs[r].units[c] = [st |-> "done", how |-> how],
              !.rs[r].q = Append(@, c)]

\* lines 94-97, 142-145, 197-201: the unit takes the gate, looks at the
\* event app holds, and awaits the backend
UnitStart(r, c) ==
    /\ UNCHANGED <<gvars, cvars, vvars, pvars, xvars, dvars, uvars, wvars,
                   ovars>>
    /\ r \in 1..Len(runs)
    /\ RunStartable(r)
    /\ c \in RunPending(r) /\ \A e \in RunPending(r) : c <= e
    /\ Turns(IF runs[r].pc = "verify" /\ c \notin runs[r].has_csv
             THEN UnitDone(World, r, c, "KeyError")
             ELSE IF is_set(World) THEN UnitDone(World, r, c, "cancel")
             ELSE [World EXCEPT
                     !.rs[r].units[c].st = "running",
                     !.rs[r].late_call = @ \/ runs[r].cancelled])

\* the backend call of the unit returned, or raised
UnitEnds(r, c) ==
    /\ UNCHANGED <<gvars, cvars, vvars, pvars, xvars, dvars, uvars, wvars,
                   ovars>>
    /\ r \in 1..Len(runs)
    /\ runs[r].units[c].st = "running"
    /\ \E how \in {"ok", "failed"} : Turns(UnitDone(World, r, c, how))

\* lines 108-114, 158-165, 212-220: the loop takes a completed unit, then
\* what follows the loop
RunCollect(r) ==
    /\ UNCHANGED <<gvars, cvars, vvars, pvars, xvars, dvars, uvars, wvars,
                   ovars>>
    /\ r \in 1..Len(runs)
    /\ runs[r].pc \in {"extract", "generate", "verify"}
    /\ runs[r].q # <<>>
    /\ ~RunStartable(r)
    /\ LET c  == Head(runs[r].q)
           d  == runs[r].done + 1
           pc == runs[r].pc
           s1 == [World EXCEPT
                    !.rs[r].q = Tail(@), !.rs[r].done = d,
                    !.rs[r].has_csv =
                        IF pc = "generate" /\ runs[r].units[c].how = "ok"
                        THEN @ \cup {c} ELSE @]
       IN  Turns(IF runs[r].units[c].how = "KeyError"
                 THEN RunEnds(s1, r, "fatal")
                 ELSE IF d < runs[r].n THEN RunPolls(s1, r, pc)
                 ELSE IF pc = "extract" THEN RunAfterExtract(s1, r)
                 ELSE IF pc = "generate" THEN RunAfterGenerate(s1, r)
                 ELSE RunEndPass(s1, r))

\* the steps the event loop takes by itself
RunsProgress ==
    \E r \in 1..MaxRuns :
        \/ RunChunked(r)
        \/ RunCollect(r)
        \/ \E c \in 1..RunChunks : UnitStart(r, c) \/ UnitEnds(r, c)

NextRuns == RunStart \/ RunCancel \/ RunsProgress

SpecRuns == InitRuns /\ [][NextRuns]_vars

\* one run alone, on a machine with one CPU or with sixteen, with the
\* double-verification flag on or off
InitOneRun ==
    /\ IdleGen
    /\ IdleChunk
    /\ IdleVerify
    /\ IdlePipe
    /\ IdleExtract
    /\ IdleDedupe
    /\ IdleCards
    /\ IdleWindows
    /\ IdleCollect
    /\ shared \in {NewShared(n, dc) : n \in CpuCounts, dc \in BOOLEAN}
    /\ runs = <<>>

NextOneRun == (RunStart /\ runs = <<>>) \/ RunCancel \/ RunsProgress

SpecOneRun == InitOneRun /\ [][NextOneRun]_vars

\* every task that can run does, and every backend call returns or raises
SpecOneRunLive == SpecOneRun /\ WF_vars(RunsProgress)


\* the outcomes of a run
Outcomes == {"ready", "cancelled", "aborted", "fatal"}

\* the run has been started
Started == runs # <<>>

\* the run has ended in one of the outcomes
Ended ==
    Started /\ runs[1].pc = "finished" /\ runs[1].outcome \in Outcomes

\* the state of unit c of the run
UnitAt(c) == IF Started THEN runs[1].units[c].st ELSE "-"

\* no unit of the run holds the gate or waits for it
Quiet == \A c \in 1..RunChunks : UnitAt(c) \notin {"pending", "running"}

\* C34: a run that is started ends, in one of the outcomes ready,
\* cancelled, aborted or fatal error, and its outcome does not change
\* afterwards; every unit that holds the gate leaves it and every unit that
\* waits for the gate gets it, so that in the end no unit holds the gate or
\* waits for it.
C34_RunsTerminate ==
    /\ Started ~> Ended
    /\ \A c \in 1..RunChunks :
          (UnitAt(c) \in {"pending", "running"}) ~> (UnitAt(c) = "done")
    /\ <>[]Quiet
    /\ [](Started =>
             /\ (runs[1].pc = "finished") <=> (runs[1].outcome \in Outcomes)
             /\ runs[1].outcome \in Outcomes \cup {"-"})
    /\ [][Started /\ runs[1].outcome # "-"
             => runs'[1].outcome = runs[1].outcome]_vars

\* C34 witness: the run was cancelled while its second unit was waiting
\* for the gate; it has ended cancelled, the unit has seen the event and
\* left the gate, and no unit is left at the gate.
C34_Witness ==
    /\ Ended /\ runs[1].outcome = "cancelled"
    /\ runs[1].max_workers = 1
    /\ runs[1].units[1].how = "ok" /\ runs[1].units[2].how = "cancel"
    /\ Quiet


\* C35: after a run has been cancelled, no unit of the run that took the
\* gate afterwards has called the backend, whatever Start and Cancel
\* operations followed.
C35_NoCallAfterCancel ==
    \A r \in 1..Len(runs) : ~runs[r].late_call

\* C35 witness: the first run was cancelled, its event is still set, a
\* second run was started, and the second unit of the first run, which
\* took the gate after the cancellation, has called the backend.
C35_Witness ==
    /\ Len(runs) = 2
    /\ runs[1].cancelled /\ 1 \in shared.is_set
    /\ shared.event = 2 /\ 2 \notin shared.is_set
    /\ runs[1].late_call
    /\ runs[1].units[1].st = "done" /\ runs[1].units[2].st = "running"

\* the texts run r has written when it reports ready
OwnGenerated(r) == IF runs[r].has_csv = {} THEN <<>> ELSE <<RunCsv(r, 0)>>

OwnVerified(r) ==
    IF runs[r].active = {} THEN <<>>
    ELSE <<RunCsv(r, runs[r].verification_runs)>>

\* C36: when a run reports ready, the facts, the generated CSV and the
\* verified CSV the app holds are those the run has written, and the card
\* rows are the parse of the run's final CSV, also when Start was pressed
\* again while the run was in progress.
C36_ReadyStateIsOwn ==
    \A r \in 1..Len(runs) :
        runs[r].outcome = "ready" =>
            /\ runs[r].at_ready.all_facts = r
            /\ runs[r].at_ready.generated_csv = OwnGenerated(r)
            /\ runs[r].at_ready.verified_csv = OwnVerified(r)
            /\ runs[r].at_ready.card_rows = <<"header">> \o OwnVerified(r)

\* C36 witness: Start was pressed while the first run was in progress, and
\* the first run has reported ready with its own card rows while the app
\* held the facts of the second run.
C36_Witness ==
    /\ Len(runs) = 2
    /\ runs[1].outcome = "ready"
    /\ runs[1].at_ready.all_facts = 2
    /\ runs[1].at_ready.card_rows = <<"header", RunCsv(1, 1)>>

=============================================================================
